---- MODULE Spec2Model ----
(***************************************************************************)
(* A model of DataAnalysisStudio (src/Analysis.py): the controller object  *)
(* that owns one resident DataFrame, one figure and the text panes, and    *)
(* the handlers Tk calls on user events.  One action per handler; each     *)
(* action is the whole handler, run to completion (Tk's mainloop runs one  *)
(* callback at a time).                                                    *)
(*                                                                         *)
(* Conventions.  A path is a sequence of characters, so that               *)
(* str.endswith is computed, not assumed.  A cell of a column is a record  *)
(* [k, v]: k is "num" (v the number; a float is fixed-point),              *)
(* "nan" (missing), "str" (v a label code) or "list" (a nested JSON list   *)
(* of v elements).  A DataFrame is [isNone, cols]; self.df = None is       *)
(* NoneDF.  A column read from a file holds its cells written out; a       *)
(* column of the sample table holds the array the generator drew, named by *)
(* the generator state, its place among the arrays drawn and its length,   *)
(* and Cells gives its elements.                                           *)
(***************************************************************************)
EXTENDS Integers, Sequences, FiniteSets, TLC

VARIABLES
    df,              \* self.df
    current_file,    \* self.current_file
    column_var,      \* self.column_var (the combobox's selection)
    combo_values,    \* self.column_combo['values']
    data_tree,       \* self.data_tree: its columns and inserted rows
    data_status,     \* self.data_status_label's text
    data_info,       \* self.data_info_text's content
    results,         \* self.results_text: its state and content
    fig,             \* self.fig: the sequence of its axes
    canvas,          \* what self.canvas last drew
    tab,             \* self.right_notebook's selected tab
    status,          \* self.status_label: text and status type
    dialogs,         \* the open scatter column-selection dialogs
    rng,             \* numpy's global random state
    calls,           \* the events the main loop has dispatched so far
    intp,            \* the dtype numpy's astype(int) yields on this build
    ev,              \* what the last handler showed, raised and indexed
    call             \* the computation of a handler's body last run on its own:
                     \* its name, its input and its result

vars == <<df, current_file, column_var, combo_values, data_tree, data_status,
          data_info, results, fig, canvas, tab, status, dialogs, rng, calls, intp, ev,
          call>>

\* Everything the user can observe or a later handler reads, except ev.
appState == <<df, current_file, column_var, combo_values, data_tree, data_status,
              data_info, results, fig, canvas, tab, status, dialogs, rng>>

-----------------------------------------------------------------------------
\* Bounds of the model.

\* Scatter dialogs that may be open at once.
MaxDialogs == 2
\* Entries of a dialog's combobox the user picks among.
MaxPick == 1

-----------------------------------------------------------------------------
\* Program constants.

RandomSeed == 42
DisplayLimit == 100
HistTopN == 15
AnalyzeTopN == 10

-----------------------------------------------------------------------------
\* Cells.

Num(n) == [k |-> "num", v |-> n]
NaN == [k |-> "nan", v |-> 0]
Str(i) == [k |-> "str", v |-> i]
List(n) == [k |-> "list", v |-> n]

-----------------------------------------------------------------------------
\* The sample generator (load_sample_data's try body up to pd.DataFrame).
\* np.random is numpy's global generator, a Mersenne Twister (MT19937).  Its
\* state is named here by the seed last set and the number of variates drawn
\* since: the stream after np.random.seed(seed) is a function of seed alone.
\* A variate is a fixed-point number <<a, b>>, a millionths and b millionths
\* of a millionth, both of the variate's sign.  A float of the table is
\* fixed-point too, in thousandths.

RandomState(seed, drawn) == [seed |-> seed, drawn |-> drawn]
\* The state numpy seeds itself with at import, from the operating system.
Unseeded == RandomState(-1, 0)
\* The state after j more variates.
Advance(s, j) == RandomState(s.seed, s.drawn + j)

\* The offset the stream below is written with: every number of it is the
\* half of a variate plus Bias, so that the stream is a tuple of naturals.
Bias == 10000000

\* The variates the calls of lines 615-622 draw, in order, after
\* np.random.seed(42) with n_samples = 1000: 4000 standard normal deviates
\* (Age, Income, Education_Years, Experience), 1000 uniform deviates of [0, 1)
\* (Satisfaction), 1000 integers of 0..4 (Department), 1000 standard normal
\* deviates (Performance_Score) and 1000 integers of 0..4 (City).  Variate j
\* is <<MT19937[2j-1] - Bias, MT19937[2j] - Bias>>.
MT19937 ==
    << 10496714, 10153011, 9861736, 9698829, 10647688, 10538100, 11523029, 10856408, 9765847, 9625277,
       9765864, 9043051, 11579212, 10815507, 10767434, 10729152, 9530526, 9614066, 10542560, 10043585,
       9536583, 9307188, 9534271, 9246430, 10241962, 10271566, 8086720, 9755343, 8275083, 9167487,
       9437713, 9470760, 8987169, 9879666, 10314247, 10332595, 9091976, 9924479, 8587697, 9298665,
       11465648, 10768921, 9774224, 9699514, 10067528, 10204687, 8575252, 9813787, 9455618, 9275475,
       10110922, 10589709, 8849007, 9422578, 10375698, 10018345, 9399362, 9310082, 9708307, 9250207,
       9398294, 9387771, 11852278, 10184508, 9986503, 9775263, 8942290, 9071045, 10822544, 10912103,
       8779157, 9350029, 10208863, 10595004, 8040330, 9876121, 8671814, 9951102, 10196861, 10235869,
       10738466, 10579995, 10171368, 10281189, 9884352, 9717612, 9698897, 9304411, 8521479, 9009633,
       9280156, 9791606, 9539362, 9229041, 11057122, 10226218, 10343618, 10289568, 8236960, 9844638,
       10324083, 10969394, 9614918, 9719584, 9323078, 9999695, 10611676, 10288840, 11030999, 10522495,
       10931280, 10119116, 9160783, 9476778, 9690788, 9624149, 10331263, 10431403, 10975545, 10127122,
       9520826, 9762155, 9814342, 9023337, 8893666, 9025994, 8803794, 9375920, 10812525, 10822394,
       11356240, 10028570, 9927990, 9878420, 11003532, 10897892, 10361636, 10025047, 9354881, 9245395,
       10361395, 10605508, 11538036, 10566465, 9964174, 9960891, 11564643, 10655814, 7380255, 9895911,
       10821902, 10504375, 10087047, 10068238, 9700993, 9649535, 10091760, 10776535, 8012432, 9085400,
       9780329, 9112163, 10357112, 10571511, 11477894, 10044741, 9481730, 9781727, 9191507, 9397107,
       9498243, 9956416, 10915402, 10117702, 10328751, 10109659, 9470240, 9796233, 10513267, 10433113,
       10097077, 10549348, 10968644, 10990532, 9297947, 9906123, 9672338, 9853403, 9607892, 9846868,
       8536486, 9051868, 10296120, 10277064, 10261055, 10272179, 10005113, 10456642, 9765413, 9866625,
       8584630, 9257950, 9579355, 9677235, 9657286, 9483474, 9197723, 9730779, 9838715, 9288334,
       10404050, 10856814, 11886185, 10901210, 10174577, 10812831, 10257550, 10390722, 9925555, 9084234,
       8081229, 9784701, 9973487, 9124551, 10060230, 10209941, 12463242, 10112485, 9807640, 9035219,
       10301547, 10342333, 9965289, 9230295, 8831322, 9962381, 11142822, 10814515, 10751933, 10032686,
       10791031, 10947043, 9090613, 9545206, 11402794, 10310936, 8598149, 9937208, 10586857, 10093800,
       12190455, 10625809, 9009464, 9674870, 9433703, 9270398, 10099651, 10365087, 9496525, 9345884,
       8449337, 9568934, 10068562, 10974806, 8937697, 9286274, 10473592, 10430635, 9080576, 9765767,
       11549934, 10405017, 9216747, 9707664, 9677939, 9483795, 10813517, 10217369, 8769136, 9683567,
       10227459, 10934604, 11307142, 10754282, 8392517, 9765439, 10184633, 10858532, 10259882, 10794248,
       10781822, 10871777, 8763050, 9289122, 8679544, 9386916, 10521941, 10565616, 10296984, 10673233,
       10250492, 10850345, 10346448, 10209496, 9319976, 9278422, 10232253, 10697161, 10293072, 10473298,
       9285649, 9581974, 11865774, 10511144, 10473832, 10920911, 8808697, 9502798, 10656553, 10608633,
       9025319, 9329773, 10787084, 10603742, 11158595, 10579007, 9179318, 9681649, 10963376, 10129244,
       10412780, 10926936, 10822060, 10159994, 11896792, 10982653, 9754612, 9883998, 9246264, 9835643,
       9110486, 9570375, 9184190, 9715035, 9922899, 9290586, 10341151, 10974816, 10276690, 10799330,
       10827183, 10249036, 10013001, 10891877, 11453534, 10077157, 9735344, 9166763, 12720169, 10166589,
       10625667, 10347765, 9142843, 9443584, 8929108, 9501939, 10482472, 10415243, 9776538, 9214675,
       10714000, 10494092, 10473237, 10624573, 9927172, 9087344, 9153207, 9281932, 8485153, 9775315,
       9553486, 9047933, 10856398, 10794323, 10214093, 10744130, 8754262, 9221289, 10173180, 10925851,
       10385317, 10379728, 9116143, 9563799, 10153725, 10105945, 10058208, 10718445, 8857030, 9702170,
       10357787, 10360348, 10560784, 10526368, 11083051, 10243175, 11053802, 10052034, 8622331, 9632043,
       9062175, 9960085, 10515035, 10267208, 10513785, 10950912, 10515047, 10686306, 13852731, 10490654,
       10570890, 10510693, 11135565, 10640180, 10954001, 10763493, 10651391, 10251305, 9684731, 9755360,
       10758969, 10220493, 9227175, 9785463, 9763182, 9393260, 9514637, 9452171, 10081874, 10139386,
       12314658, 10566673, 8132735, 9807409, 10686260, 10190374, 8387285, 9128811, 9528069, 9134211,
       11088950, 10596967, 10064280, 10019095, 8922256, 9222071, 9284697, 9290741, 10679597, 10748934,
       9269634, 9368283, 10216458, 10589581, 10045571, 10839903, 9348400, 9652395, 12143944, 10089325,
       10633919, 10022318, 7974858, 9413343, 10186454, 10314769, 9338214, 9535232, 10852433, 10334796,
       9207480, 9261568, 9885264, 9558534, 10504987, 10278980, 10865755, 10194170, 8799704, 9592945,
       9665499, 9764160, 9525055, 9688840, 9346671, 9767427, 11765454, 10240281, 10404981, 10710960,
       8739117, 9045665, 10917861, 10947054, 12122156, 10197012, 11032465, 10260551, 8480631, 9034046,
       9515766, 9927134, 11266911, 10149186, 9292331, 9534382, 10443819, 10428146, 10774634, 10053429,
       9073070, 9528422, 9940475, 9643939, 6758733, 9659931, 8975613, 9358666, 9747432, 9848607,
       8752217, 9818036, 11632411, 10303931, 8569859, 9622040, 9559956, 9513304, 10130740, 10577286,
       11441273, 10289066, 8564138, 9848821, 11163163, 10752154, 10010233, 10061019, 9018492, 9348953,
       10462103, 10474263, 10199059, 10695573, 9399784, 9122842, 10069802, 10084990, 9614687, 9403139,
       10113517, 10345251, 10662130, 10674521, 11586016, 10816145, 8762185, 9501174, 12133033, 10374656,
       8047913, 9200478, 9848215, 9904965, 10588317, 10206484, 10280991, 10867735, 9377301, 9480180,
       9791878, 9749643, 9507000, 9065342, 9410636, 9243056, 10849602, 10097021, 10357015, 10485965,
       9307091, 9404740, 10899599, 10875433, 10307299, 10520876, 10812862, 10118838, 10629628, 10841923,
       9171005, 9989078, 9439819, 9959804, 10747293, 10605123, 10610370, 10265433, 9979099, 9406036,
       10117327, 10383308, 11277664, 10895788, 9408429, 9611165, 10547097, 10381170, 9797808, 9347567,
       9782319, 9796773, 11098776, 10851987, 10825416, 10348988, 10813509, 10636000, 11305478, 10807154,
       10021003, 10841632, 10681952, 10971294, 9689734, 9243407, 10324166, 10352488, 9869857, 9945633,
       10096995, 10964992, 10595157, 10025436, 9181780, 9316767, 12092387, 10275685, 8993983, 9618501,
       8785812, 9387213, 11158110, 10873500, 10791662, 10693962, 10624119, 10817052, 10628345, 10509264,
       9987754, 9227154, 9102746, 9628515, 10075804, 10558193, 9322839, 9288488, 10975119, 10733417,
       9852943, 9618498, 9174503, 9803208, 9678615, 9158348, 10412931, 10454275, 9436276, 9447197,
       9177780, 9604434, 10243687, 10211491, 10244966, 10571108, 9493057, 9824629, 9528962, 9694382,
       10232049, 10937357, 8551916, 9658503, 8592537, 9225624, 9281556, 9778748, 9786553, 9848289,
       10310907, 10565598, 11475356, 10216949, 10857659, 10623202, 9840062, 9470037, 9980984, 9792098,
       8997471, 9635363, 9981487, 9864008, 9711342, 9361080, 10322718, 10560338, 9172770, 9056448,
       10519346, 10514241, 11532738, 10913002, 9891240, 9851544, 10401711, 10722098, 10690143, 10991711,
       9598780, 9528115, 10224092, 10481810, 10012592, 10400781, 10097676, 10098548, 9226991, 9216145,
       10024510, 10174258, 10497998, 10291245, 11451143, 10607795, 10959270, 10826085, 12153182, 10457511,
       9232653, 9437112, 10872320, 10636720, 10183342, 10005738, 12189802, 10933217, 9191702, 9714645,
       9160279, 9157820, 9400608, 9354556, 7876105, 9275691, 9474245, 9978320, 9240868, 9338447,
       10150393, 10786476, 10341755, 10975777, 11876170, 10839215, 10950423, 10838186, 9423097, 9344338,
       9101586, 9328652, 10491919, 10171506, 8679767, 9792980, 11831458, 10765854, 11179440, 10120721,
       9530825, 9347896, 8286866, 9470910, 11353872, 10374165, 9885461, 9154748, 11237816, 10311973,
       8405573, 9341206, 9400625, 9977047, 10005243, 10699718, 10046980, 10593764, 9549935, 9528521,
       10622849, 10932347, 8932380, 9570618, 9857621, 9514979, 10120295, 10631711, 10514438, 10834058,
       10711614, 10878088, 8875358, 9908163, 8465886, 9829265, 11277676, 10821898, 10332314, 10011979,
       9251514, 9463444, 11551151, 10975522, 10115674, 10634292, 11179297, 10184063, 10067518, 10481410,
       12060747, 10924881, 11755340, 10842443, 9751036, 9851521, 10971570, 10950954, 10645375, 10949585,
       11368631, 10557532, 9035077, 9539420, 10686051, 10459998, 11058424, 10486849, 8241261, 9513577,
       8816742, 9487335, 7960768, 9822240, 9730594, 9165556, 10717542, 10255795, 11502357, 10052096,
       10074094, 10780419, 11628615, 10545571, 8619899, 9541786, 8296618, 9560645, 9944453, 9301104,
       10384065, 10448939, 9967306, 9251906, 7932558, 9899961, 9910880, 9960488, 8695531, 9499496,
       10669672, 10548830, 10366598, 10246096, 9060121, 9213673, 9486134, 9082664, 8940787, 9478112,
       9937321, 9902727, 10955142, 10320501, 9014274, 9953665, 10504046, 10515517, 9469743, 9381628,
       9207128, 9167738, 9892970, 9640046, 8964758, 9677581, 9446351, 9694653, 8802123, 9107412,
       11964725, 10132916, 10035263, 10551971, 9300275, 9492008, 10213979, 10910734, 9887672, 9950310,
       9779031, 9400467, 10614166, 10700043, 10757507, 10710047, 9469499, 9852390, 9424182, 9759356,
       9724949, 9302849, 7698079, 9835265, 8484809, 9937802, 11366874, 10267444, 11644967, 10713501,
       9750964, 9960444, 10576556, 10963055, 10311250, 10154543, 13078880, 10808455, 11119574, 10911434,
       9872083, 9408520, 9044460, 9559400, 8393554, 9679743, 10203463, 10635867, 9243650, 9254716,
       8577747, 9290403, 9353428, 9115758, 8918452, 9996386, 11687141, 10635072, 10881639, 10756949,
       9992028, 9358684, 11479944, 10138890, 10077368, 10307647, 9138716, 9798672, 11523124, 10077269,
       10538910, 10043684, 8962754, 9845674, 9809662, 9321917, 9124382, 9746616, 8617201, 9269036,
       10926177, 10547531, 11909416, 10640470, 8601433, 9426181, 10562969, 10236690, 9349358, 9430879,
       9512875, 9616236, 9407607, 9075762, 9136010, 9230321, 10048521, 10627944, 9169050, 9883589,
       10270456, 10825779, 9949762, 9890551, 9761052, 9953134, 9092437, 9337959, 9423229, 9669432,
       10755391, 10225825, 10500917, 10187624, 9022445, 9755202, 10099332, 10305429, 10751387, 10123371,
       8330595, 9718879, 10543360, 10192379, 9337377, 9241055, 10570598, 10668593, 9236741, 9843458,
       8195118, 9899336, 8372458, 9562117, 10048084, 10946661, 10259722, 10501721, 9095684, 9374896,
       10638592, 10458777, 8338480, 9937732, 9933921, 9201353, 8788984, 9800238, 9348164, 9892198,
       10047398, 10671316, 9139587, 9634717, 9615445, 9455771, 11006292, 10809214, 9423109, 9130477,
       10835692, 10112065, 8870294, 9145343, 10529804, 10177915, 11441568, 10620657, 7528356, 9499873,
       9203105, 9744530, 10577072, 10127180, 9796955, 9613958, 10371145, 10873371, 9396015, 9813285,
       10086589, 10787472, 9844323, 9764608, 11167782, 10061659, 10254420, 10843301, 10337602, 10662075,
       9588124, 9033878, 9512394, 9775928, 9567442, 9812181, 10394452, 10142378, 9579016, 9519180,
       10289774, 10856896, 12075400, 10798645, 10871124, 10703431, 9673977, 9467833, 11201213, 10922163,
       9591925, 9626979, 7961876, 9464823, 8991914, 9689083, 8129209, 9078975, 9648487, 9515959,
       10018418, 10379189, 11676437, 10312275, 10326927, 10373764, 9780900, 9471192, 10829405, 10581183,
       7788865, 9690993, 10235614, 10558108, 10770865, 10193886, 8521414, 9754221, 11143754, 10043206,
       10338496, 10407494, 9584713, 9086100, 10632781, 10866106, 12270692, 10857804, 10181866, 10255058,
       10248220, 10586300, 9540640, 9100460, 9150156, 9630536, 10830335, 10816544, 9143917, 9174092,
       10071566, 10237219, 9522343, 9553235, 10478979, 10825746, 10333662, 10105286, 11037539, 10944257,
       9489984, 9601146, 9730126, 9064707, 9021237, 9284218, 9555707, 9739924, 10377300, 10493044,
       10756988, 10616645, 9077835, 9675823, 10869605, 10920105, 11355637, 10858804, 10413434, 10903223,
       11876795, 10812558, 9226211, 9800897, 8755346, 9296689, 8221280, 9751096, 11496044, 10311489,
       10654365, 10656354, 9944416, 9329090, 10279968, 10626319, 8874511, 9952702, 12445751, 10979616,
       10129221, 10181975, 10109394, 10794604, 10725766, 10623898, 10481009, 10231736, 10223884, 10024279,
       9209526, 9544555, 10471468, 10357135, 11882024, 10496475, 11345420, 10046154, 11593186, 10626639,
       9488785, 9323569, 9010396, 9179742, 9874214, 9079901, 10055724, 10912288, 11094191, 10518470,
       8307536, 9370286, 11529550, 10319460, 9841993, 9101422, 9573119, 9930053, 8987896, 9624740,
       8345144, 9328135, 10823170, 10583961, 10073317, 10967188, 8710040, 9100259, 8704922, 9227937,
       9664216, 9300710, 11669021, 10525289, 9740409, 9648637, 8496858, 9046882, 9754257, 9935915,
       9727277, 9430253, 7303114, 9357059, 9945706, 9133483, 9769066, 9469792, 10696206, 10364813,
       11848956, 10094945, 11126565, 10029547, 9731112, 9309446, 8893475, 9091259, 12573359, 10803249,
       10059218, 10434014, 10013929, 10291912, 9975875, 9912890, 10198084, 10760767, 9855640, 9588077,
       9426338, 9993120, 9453142, 9058760, 9967247, 9729785, 9456576, 9228867, 9287155, 9217323,
       10106430, 10227691, 9745023, 9782580, 11503992, 10988582, 7349031, 9191607, 11091506, 10851922,
       11246085, 10192497, 7926610, 9767592, 9657313, 9405920, 9628560, 9134005, 8592489, 9305283,
       9222184, 9312410, 8889425, 9154535, 11752270, 10443423, 10935678, 10393147, 11271555, 10094994,
       10721672, 10064043, 8870949, 9228783, 9475480, 9733721, 10489374, 10561227, 8777873, 9191109,
       10712998, 10430172, 9759675, 9601842, 9625180, 9192451, 10710959, 10968203, 10444263, 10311486,
       9639034, 9834181, 11159329, 10803364, 8918937, 9672401, 10615935, 10606944, 10593101, 10257968,
       9690454, 9560687, 10326133, 10022242, 8748887, 9423615, 10924027, 10019206, 9815098, 9863558,
       9477277, 9979481, 11049009, 10225836, 9295657, 9309458, 8591539, 9703637, 8443371, 9826477,
       10606009, 10951345, 8719571, 9647504, 11754794, 10181984, 7918071, 9592117, 11696456, 10368290,
       10211017, 10467202, 9903287, 9888130, 9455081, 9913192, 10399136, 10114352, 9962366, 9297576,
       11103301, 10882016, 10114227, 10648662, 10150301, 10761461, 9636388, 9787787, 9943055, 9376279,
       10307801, 10768892, 8289832, 9607344, 8651815, 9577895, 10743264, 10094022, 10170865, 10438127,
       9816017, 9663648, 10018433, 10933065, 10347581, 10705361, 9460241, 9319691, 9221696, 9274598,
       10195845, 10255097, 9021628, 9222385, 10408252, 10755714, 8297417, 9395763, 11029155, 10637325,
       10472597, 10482413, 10256029, 10734313, 10982690, 10983945, 11665474, 10444462, 11014370, 10065018,
       8159126, 9768669, 8720424, 9033265, 9375182, 9422305, 10026091, 10050210, 10517659, 10020469,
       9274257, 9186847, 10186766, 10764477, 9244618, 9067647, 9388483, 9197009, 8593339, 9903152,
       9076767, 9753890, 8648316, 9394384, 9024127, 9747023, 11053641, 10796607, 9050602, 9111169,
       12632382, 10064837, 10493317, 10900880, 10184836, 10123694, 9141643, 9219819, 10700309, 10879408,
       9424363, 9173763, 10122009, 10814645, 12560084, 10538268, 9903941, 9100276, 11149273, 10326285,
       9296824, 9574875, 9965012, 9509504, 11770800, 10635635, 9373033, 9942213, 11812448, 10557996,
       10707751, 10935455, 9437534, 9224106, 10632407, 10739055, 10972554, 10449626, 10621809, 10962217,
       8429776, 9280110, 9272863, 9824176, 9752482, 9364449, 9925567, 9570900, 10620672, 10097550,
       10177701, 10000933, 8664656, 9641290, 10380197, 10851005, 10610585, 10745283, 10559790, 10447931,
       11080780, 10725554, 10833922, 10154548, 10459180, 10079228, 9929835, 9288542, 8339040, 9066485,
       10429618, 10219132, 10207687, 10687163, 10271578, 10837195, 8723252, 9424180, 8918944, 9459592,
       11053152, 10853332, 9960445, 9846144, 10681500, 10697372, 10028318, 10376130, 10029756, 10139495,
       10938283, 10805975, 9483956, 9271783, 10096120, 10776940, 9537725, 9711295, 9565504, 9772568,
       9690828, 9876532, 10222133, 10771633, 9521252, 9378337, 11255756, 10125573, 9105393, 9697781,
       9813129, 9355839, 9560269, 9941726, 11446977, 10884353, 10196554, 10776511, 11031844, 10539468,
       8514440, 9626964, 10267050, 10265869, 10889630, 10795623, 10082283, 10989275, 11065480, 10375065,
       9482712, 9549900, 11409347, 10440185, 12298898, 10123619, 9637162, 9439561, 9554498, 9478600,
       11453384, 10477117, 11579572, 10145730, 9477140, 9972847, 9579814, 9182905, 9718216, 9391140,
       8655550, 9488966, 9081349, 9053516, 8995860, 9233248, 9232203, 9434896, 9965316, 9112614,
       10234214, 10732536, 11550500, 10492814, 9001646, 9959262, 10984322, 10398476, 9786012, 9155775,
       9950537, 9290348, 10674819, 10492166, 8877278, 9978438, 10382409, 10746184, 10166452, 10208213,
       10492451, 10264008, 10289168, 10643907, 12455300, 10139910, 9362261, 9015749, 9469004, 9044999,
       9376860, 9473576, 9444523, 9880840, 9362613, 9872694, 11189016, 10531107, 11420504, 10247989,
       9429254, 9706251, 9167645, 9426896, 10471415, 10556386, 9447777, 9955720, 10632931, 10817755,
       10202923, 10020851, 8484256, 9885003, 11547505, 10201330, 11795877, 10673095, 9387212, 9309516,
       9612299, 9440065, 10285865, 10390724, 10334456, 10789987, 10658544, 10272672, 12010204, 10538766,
       9823053, 9772506, 9201703, 9755462, 8620681, 9771986, 9269070, 9960059, 9966874, 9027127,
       11794557, 10863517, 9482389, 9700964, 10223787, 10951638, 9983578, 9103928, 11188393, 10273448,
       12526932, 10425873, 9469132, 9227080, 9510561, 9557482, 11044160, 10877069, 10681891, 10489626,
       11846707, 10325736, 10583928, 10185325, 9640708, 9909213, 10590654, 10830692, 11108703, 10580582,
       10820482, 10181197, 10507274, 10031107, 11066674, 10689589, 11169295, 10590445, 11382158, 10991037,
       10648709, 10887589, 9832882, 9919684, 10146713, 10686433, 11206508, 10966508, 9183065, 9329013,
       10368673, 10308872, 9606662, 9187673, 10028744, 10822934, 11278451, 10862607, 10191099, 10068019,
       10046436, 10548156, 8640144, 9859021, 10746253, 10566027, 10645484, 10181141, 12163254, 10723305,
       9692222, 9765047, 10219150, 10327663, 10249383, 10683710, 11577453, 10279763, 9904705, 9467614,
       10279021, 10525770, 10607896, 10509716, 10186609, 10123156, 9553567, 9385450, 10194089, 10992898,
       11073631, 10749859, 8973485, 9700589, 10132969, 10674146, 9299880, 9185061, 11195046, 10628924,
       8476814, 9095217, 9441079, 9152729, 10377211, 10875064, 11565524, 10029234, 9934250, 9738928,
       9444801, 9473307, 11881157, 10069440, 8551987, 9099584, 7801195, 9043380, 10440014, 10450053,
       9497946, 9775648, 8978768, 9182870, 10708356, 10447299, 10243800, 10713771, 9435922, 9369264,
       8719696, 9601330, 10872457, 10328280, 10650201, 10177958, 9900825, 9136221, 11846636, 10996047,
       8929916, 9233674, 8474475, 9829076, 9308092, 9930119, 9954414, 9983645, 10243339, 10449322,
       9758764, 9942144, 10352055, 10396514, 8748461, 9575810, 11443764, 10604073, 9917849, 9821608,
       11117295, 10831588, 10342725, 10346377, 10456753, 10219153, 10569767, 10280232, 10447708, 10560017,
       10642722, 10759867, 11329152, 10530132, 10196521, 10169701, 10709003, 10757588, 9910265, 9305713,
       11440117, 10215449, 9323608, 9697941, 11800940, 10432910, 9959843, 9049356, 8569225, 9897882,
       10128104, 10414910, 9318949, 9342526, 10840643, 10548988, 9347377, 9020698, 9553817, 9566786,
       8110460, 9269055, 9547694, 9680751, 7576121, 9673372, 8416098, 9176515, 10760414, 10656144,
       10785800, 10158650, 10425457, 10561784, 9033024, 9856871, 9952289, 9643859, 9996398, 9460910,
       8841636, 9310808, 11503398, 10301767, 10877362, 10290575, 9779036, 9826171, 10026885, 10838994,
       10208382, 10807947, 7958266, 9131576, 9752823, 9617480, 9318016, 9752003, 8998380, 9990106,
       9718900, 9707115, 11797686, 10526849, 10640842, 10861267, 9428822, 9010218, 10572582, 10781356,
       11399355, 10436586, 10924633, 10682912, 10059630, 10369920, 9353064, 9222295, 10698223, 10313613,
       10393485, 10385421, 10895193, 10220027, 10635171, 10801681, 11049552, 10715319, 9464765, 9788440,
       11317394, 10065634, 10197599, 10604692, 12075260, 10872625, 9310813, 9181911, 11735963, 10803165,
       10197910, 10783462, 9348582, 9996386, 9516115, 9165946, 9679653, 9691806, 10424165, 10946401,
       10522835, 10488035, 9426300, 9996062, 9975646, 9407740, 12142270, 10358611, 11727543, 10170100,
       10436323, 10669674, 10038003, 10478168, 10120031, 10326718, 10613517, 10972730, 8977208, 9434802,
       9742624, 9462577, 8331416, 9926123, 10399223, 10122605, 10647195, 10939702, 9516814, 9537701,
       11573986, 10763290, 8774235, 9336998, 8535626, 9119791, 10224451, 10818559, 11047098, 10302612,
       11683927, 10691457, 9541116, 9737132, 11078680, 10833431, 9961492, 9530500, 9827373, 9700060,
       10883659, 10937486, 10652322, 10878413, 8423608, 9843016, 11476540, 10349725, 11380091, 10354147,
       9374438, 9298491, 10395803, 10533437, 10494030, 10186282, 10260673, 10765823, 9449695, 9846155,
       9328377, 9632062, 9974446, 9929009, 11172729, 10019259, 10543600, 10154594, 9629386, 9667914,
       10771698, 10710648, 7151458, 9379370, 11148765, 10700372, 8260287, 9221222, 9637560, 9058597,
       8880331, 9105374, 8705319, 9524280, 11160826, 10787378, 9532299, 9798689, 10346503, 10881730,
       9953080, 9421121, 10477040, 10827223, 10076821, 10891060, 8717008, 9775812, 10996266, 10819447,
       9506244, 9416839, 8443419, 9101341, 9571885, 9839035, 11500759, 10790634, 10850221, 10742113,
       9651348, 9865593, 9650743, 9295682, 9678365, 9948783, 12076747, 10983560, 10381935, 10452231,
       10430041, 10647191, 11030283, 10454031, 10238789, 10159026, 9740958, 9854180, 9803651, 9150916,
       9928399, 9740586, 9962778, 9763491, 10727629, 10543636, 10051945, 10885807, 10732640, 10077215,
       9919284, 9419892, 10078635, 10190316, 8001800, 9315468, 10916327, 10674702, 10346488, 10475897,
       10998010, 10109859, 7103745, 9621807, 12088374, 10704780, 9860411, 9371845, 11108182, 10816737,
       8960095, 9072875, 10612773, 10905062, 8946585, 9436827, 9376232, 9039305, 11914031, 10353866,
       9809318, 9599237, 10217432, 10873179, 10870067, 10730688, 10495681, 10887972, 10150418, 10905143,
       10364961, 10002466, 12403415, 10585238, 9942382, 9202967, 10201099, 10046714, 11050654, 10396007,
       11105525, 10932957, 11187030, 10305560, 10638730, 10222029, 8856996, 9087270, 11633431, 10532301,
       8853655, 9606982, 10302635, 10465239, 9245725, 9149981, 9935862, 9653408, 10328762, 10410303,
       10321357, 10215450, 10421920, 10754235, 11613711, 10269058, 10453534, 10301513, 9755844, 9364710,
       10964087, 10168288, 11189470, 10488924, 8772393, 9184864, 10597400, 10069849, 10701172, 10742310,
       9702437, 9496641, 11375706, 10813311, 9849945, 9412968, 10125576, 10453471, 9826929, 9175717,
       10015579, 10047581, 8903725, 9913105, 8559950, 9117406, 11594505, 10063224, 9153039, 9651682,
       9008608, 9650544, 7846610, 9886397, 9361039, 9252311, 8676911, 9206593, 11642015, 10160136,
       11009817, 10089342, 9311850, 9654823, 12252435, 10805344, 10981765, 10486991, 9675169, 9616492,
       7500595, 9285127, 12290942, 10572590, 8610428, 9533237, 8354602, 9253044, 11022570, 10432009,
       12439752, 10406339, 11384272, 10818510, 10563909, 10120052, 10594754, 10341665, 10853415, 10558780,
       10758928, 10589786, 10281191, 10423969, 10104201, 10103951, 9937407, 9872101, 9246036, 9411134,
       9719325, 9923134, 8307044, 9185805, 9901661, 9373206, 9011409, 9892850, 8896411, 9682785,
       10179894, 10151153, 11392002, 10286344, 10918316, 10606002, 8429500, 9396377, 9010372, 9863430,
       10940771, 10187988, 9017513, 9606462, 9775367, 9850003, 10550052, 10099024, 9031656, 9545137,
       10105375, 10506145, 8665975, 9505082, 9398633, 9356049, 10319781, 10934142, 8407007, 9266469,
       10440474, 10737960, 9980363, 9201074, 10552489, 10954417, 10223914, 10134064, 11364140, 10429973,
       10125224, 10502647, 9570595, 9458875, 10122297, 10503032, 10543298, 10029036, 10048860, 10070325,
       10040591, 10691203, 9298009, 9312194, 9337100, 9082450, 8597395, 9728201, 11749576, 10743186,
       8756137, 9764609, 9307095, 9802205, 9281593, 9734431, 10894924, 10376944, 9705051, 9321708,
       11247742, 10072673, 9326510, 9375757, 10278994, 10162223, 9164653, 9946741, 12145149, 10127773,
       8812402, 9580971, 10309820, 10710227, 10633776, 10880932, 10413799, 10097451, 9814713, 9341123,
       9870180, 9300267, 10043811, 10471979, 9852998, 9998372, 10963879, 10116794, 12210523, 10001591,
       9442509, 9214993, 8630198, 9020421, 9911718, 9951649, 12579709, 10337654, 9196326, 9432031,
       11639116, 10805444, 11677700, 10814076, 9446412, 9758293, 10568983, 10079185, 11628396, 10623128,
       9620873, 9259013, 9796420, 9639898, 9418320, 9086052, 8985244, 9269308, 9350723, 9454934,
       8776060, 9733238, 10034083, 10468259, 9230027, 9768942, 10233785, 10911790, 8444105, 9353797,
       10330880, 10232214, 10833528, 10961608, 8006265, 9357429, 10374056, 10569847, 11227668, 10992473,
       8790359, 9981309, 11672572, 10386837, 10419019, 10009366, 9294989, 9144242, 9944231, 9922343,
       10558326, 10912521, 10076005, 10391412, 10538755, 10992446, 9079327, 9406921, 10169360, 10824036,
       8586286, 9503096, 9888774, 9938652, 9096093, 9358536, 9264471, 9057411, 11236093, 10175210,
       11091310, 10120594, 10609138, 10120907, 8907688, 9235328, 9683592, 9550306, 11213097, 10699979,
       10141716, 10913639, 12319329, 10539981, 10393317, 10839394, 10192049, 10116490, 9690884, 9535798,
       10133540, 10904782, 9847531, 9163620, 10708108, 10676688, 10956702, 10316794, 9214011, 9539493,
       8668768, 9046443, 8163795, 9626897, 10507991, 10326912, 8896634, 9393827, 7847110, 9407048,
       10388578, 10604530, 12492999, 10517432, 9993930, 9088461, 10838490, 10774451, 10081829, 10358547,
       9901111, 9346809, 10919076, 10482987, 9709726, 9455812, 10267392, 10314071, 10321697, 10806196,
       9331910, 9546357, 10992042, 10349536, 9825041, 9243305, 9244255, 9840508, 10536509, 10843570,
       9101533, 9018209, 10028181, 10157369, 9990882, 9003356, 11085895, 10565831, 10474698, 10232879,
       9974974, 9041255, 10817766, 10299200, 11390207, 10549017, 10557810, 10306351, 10010352, 10619843,
       8688164, 9767650, 8934887, 9336925, 9694776, 9295646, 9390488, 9797841, 9813029, 9697015,
       10056649, 10924897, 10529692, 10754356, 9929502, 9221941, 10486501, 10643826, 10064474, 10414810,
       8024534, 9433647, 9060665, 9606182, 9855913, 9444279, 8790306, 9257159, 10599928, 10729996,
       11530750, 10832343, 11218761, 10851697, 9786558, 9129070, 11490726, 10136849, 10148667, 10457202,
       9662915, 9028882, 9386598, 9336460, 9697531, 9313512, 9611824, 9181459, 10170416, 10222375,
       10160573, 10981049, 10003046, 10020153, 10436938, 10169746, 11190646, 10274786, 10949554, 10135441,
       8515103, 9031551, 7446079, 9865099, 10934319, 10911239, 8633122, 9301585, 9775235, 9598108,
       8829887, 9973941, 8198020, 9562420, 10541462, 10728204, 10759155, 10160302, 9423490, 9599274,
       7408958, 9707856, 9453756, 9551748, 10391804, 10005402, 8521089, 9431226, 10183359, 10919779,
       9984691, 9150828, 10579291, 10499601, 10119580, 10368414, 9026932, 9059119, 11196571, 10501664,
       9841471, 9426974, 9972696, 9460491, 9066733, 9040927, 9556718, 9748809, 9115198, 9285974,
       9827054, 9940077, 11711708, 10480142, 8628099, 9857069, 8386439, 9602124, 11471170, 10327493,
       9790677, 9322849, 9330928, 9261341, 11039904, 10687396, 9394385, 9460264, 11826009, 10713546,
       10677925, 10871339, 9512089, 9591855, 12157308, 10213265, 9394286, 9076997, 10742095, 10372009,
       10299292, 10580406, 11301741, 10289398, 11561511, 10196726, 10032004, 10149065, 9246583, 9129654,
       10459972, 10142939, 9322285, 9630248, 12013387, 10247526, 10136535, 10331082, 9634679, 9448688,
       10184680, 10305864, 8652874, 9710471, 9028386, 9961490, 11200413, 10907944, 9343106, 9721029,
       8953090, 9017319, 10536652, 10752527, 11185704, 10154662, 10718953, 10310665, 10996047, 10685805,
       9243205, 9911431, 8578190, 9333259, 11501333, 10651955, 9677321, 9161158, 9749167, 9983545,
       11328194, 10141849, 10556230, 10009400, 10455887, 10772081, 12165002, 10344901, 9356482, 9769620,
       10927840, 10128081, 10057013, 10124897, 10268592, 10278863, 11528468, 10426412, 10507835, 10756289,
       10538296, 10079049, 11072507, 10337309, 9635048, 9270458, 9160791, 9332661, 8955191, 9805979,
       8033644, 9410624, 12056207, 10129940, 8896792, 9634279, 9778747, 9376415, 9723187, 9700112,
       10307406, 10697809, 10815737, 10212539, 10860473, 10488359, 9416923, 9561432, 9832879, 9286214,
       10282579, 10950488, 9751309, 9873817, 11607345, 10576019, 10490974, 10951638, 10734877, 10786049,
       10662881, 10268667, 11173473, 10857485, 10181021, 10558703, 8703169, 9052045, 10399687, 10951752,
       9348644, 9106209, 9471384, 9318251, 10586364, 10018755, 11238283, 10071433, 10021271, 10576736,
       10308833, 10012598, 11702214, 10944635, 10240753, 10179488, 12601683, 10114180, 10565509, 10645631,
       8239238, 9240845, 10753341, 10621104, 10381158, 10384882, 11289752, 10754082, 10673181, 10351269,
       9861545, 9016017, 8775702, 9763711, 9790977, 9742714, 9149480, 9545791, 9419477, 9550196,
       10588578, 10404420, 11669904, 10504351, 10394671, 10529822, 8804117, 9937965, 10444602, 10668220,
       11196631, 10486645, 9390218, 9095681, 9865983, 9833328, 10014688, 10194729, 9215102, 9686918,
       10648280, 10433843, 9879052, 9851393, 10419532, 10443907, 9112508, 9822198, 9562542, 9699677,
       10722381, 10357827, 9627167, 9847909, 11726963, 10851233, 9600364, 9814386, 10224684, 10725751,
       10932590, 10831873, 8581635, 9267067, 8239192, 9188020, 8474344, 9685430, 11262584, 10103427,
       9448142, 9854108, 12558199, 10285668, 9435753, 9401343, 10184551, 10303197, 11542109, 10952567,
       12006092, 10888159, 12061503, 10576636, 11208366, 10230593, 11024062, 10525811, 10592526, 10949201,
       10778361, 10076166, 9448815, 9283672, 9181802, 9116578, 9996626, 9542590, 9829816, 9377476,
       9546772, 9950673, 10696387, 10447456, 10955305, 10208570, 10088406, 10886291, 11477530, 10081055,
       8858311, 9885867, 9806341, 9540721, 9283178, 9679398, 8133464, 9382927, 9917320, 9314158,
       9878253, 9491617, 11513449, 10743242, 10630811, 10684554, 8975814, 9175671, 11854092, 10566334,
       11221033, 10695525, 10582097, 10703468, 9773516, 9901151, 9040561, 9763277, 9627794, 9223929,
       11088748, 10619704, 11884586, 10305934, 11543243, 10528272, 9511151, 9578214, 8880383, 9566711,
       10140886, 10246911, 8231561, 9634438, 10323167, 10714184, 9852398, 9413702, 9533964, 9498132,
       8405297, 9932734, 10513600, 10106569, 9467300, 9160339, 8830084, 9164290, 7127738, 9786719,
       9972486, 9094950, 11772251, 10596669, 11661259, 10214547, 9542904, 9743414, 9397788, 9939639,
       10468774, 10256075, 9001615, 9560812, 10301791, 10899819, 10766080, 10278384, 11226933, 10223884,
       9899846, 9923521, 9796327, 9249824, 9122018, 9413244, 9173120, 9645961, 9773522, 9108099,
       10367365, 10506816, 10913584, 10626233, 9196822, 9049320, 11492688, 10568959, 9728877, 9398958,
       9978633, 9705652, 9252789, 9320853, 7575760, 9739728, 10884045, 10396361, 10736843, 10897092,
       9718673, 9442882, 10066990, 10717224, 10515939, 10217704, 8437455, 9143114, 9470948, 9322654,
       10794264, 10679621, 8745711, 9576831, 10293557, 10932166, 8643419, 9195377, 10466429, 10982433,
       9964359, 9517703, 8384869, 9184095, 11164739, 10354457, 9265409, 9423202, 9189748, 9562986,
       10200569, 10197230, 11148637, 10349428, 8984179, 9181022, 10061679, 10849847, 10428816, 10500330,
       10693105, 10607263, 10176441, 10555277, 9632973, 9160917, 9172410, 9779352, 10086143, 10883046,
       8927861, 9988015, 7078650, 9516506, 10436559, 10804157, 10903934, 10841086, 7637068, 9564459,
       8990270, 9295291, 10619154, 10261005, 12057495, 10469711, 10020793, 10707675, 9271998, 9058771,
       9817104, 9558896, 11374876, 10419148, 9354036, 9820876, 9200808, 9993350, 9517257, 9477818,
       9046672, 9391742, 10122670, 10315994, 11624678, 10458469, 10323079, 10273116, 9747647, 9497874,
       9708189, 9731085, 8436810, 9191304, 10883109, 10777147, 9922163, 9802988, 9819521, 9086410,
       13193107, 10567844, 10298752, 10908365, 9248209, 9949905, 9573643, 9403795, 11148445, 10709196,
       10113270, 10410537, 8561723, 9021683, 10919228, 10934575, 9331856, 9914462, 11873297, 10776217,
       11080048, 10065714, 9552679, 9104342, 11281016, 10361735, 10067855, 10510527, 10852773, 10675122,
       10484732, 10817294, 9153644, 9345010, 9356451, 9167683, 11029960, 10817581, 9665225, 9667894,
       9596352, 9536759, 9044878, 9420651, 10423599, 10065593, 12062524, 10919243, 8932468, 9085746,
       10024219, 10456672, 11412220, 10555415, 9920359, 9608755, 10452371, 10796249, 8937607, 9471854,
       10428307, 10097207, 9812856, 9734996, 10985729, 10995679, 11187386, 10051564, 12589563, 10642018,
       10579633, 10173213, 10325796, 10316582, 10194384, 10301577, 9646834, 9707190, 10338483, 10843461,
       9704599, 9589861, 10168460, 10976269, 11317597, 10535607, 8993458, 9434721, 11139878, 10561129,
       11317115, 10067339, 9881932, 9473009, 7878146, 9100992, 9392179, 9012906, 11296994, 10546561,
       9977132, 9937702, 9000698, 9767706, 9495226, 9078772, 10840620, 10026504, 10546733, 10568201,
       9761068, 9900831, 9633176, 9588186, 9608242, 9850957, 9077590, 9815502, 11615375, 10689469,
       9677680, 9530789, 11217158, 10520825, 11521316, 10051922, 10998310, 10898147, 9568380, 9687282,
       10403730, 10090336, 9975805, 9393610, 9096299, 9139270, 10324359, 10281721, 8820961, 9208841,
       11187679, 10388461, 9535383, 9702702, 10201159, 10655872, 10283287, 10871546, 9741096, 9026296,
       10586693, 10801475, 9525097, 9343378, 10871297, 10297457, 8654021, 9319754, 10126379, 10579546,
       11938928, 10999058, 8999669, 9675395, 9322256, 9029476, 10513907, 10849658, 10179581, 10781939,
       10350630, 10099273, 10489187, 10130147, 10634721, 10468561, 11109699, 10841956, 10409818, 10656928,
       9758743, 9345382, 10672573, 10701202, 11899881, 10934895, 9867367, 9253618, 9025471, 9695330,
       11107080, 10669286, 9879619, 9836047, 7827331, 9453986, 10847421, 10677150, 9464672, 9814047,
       9909467, 9717696, 10331980, 10330569, 10190499, 10679779, 10709451, 10817139, 9564514, 9629431,
       10513105, 10798176, 9740454, 9322417, 10738810, 10480887, 10615367, 10484013, 9064562, 9297956,
       11085982, 10116175, 9464037, 9554886, 10808057, 10798281, 10367287, 10313401, 11838183, 10676795,
       9776535, 9017629, 9650684, 9203882, 9980581, 9394113, 9696821, 9217166, 10799941, 10901942,
       8383690, 9391564, 8946318, 9580854, 8932198, 9078421, 10950307, 10591973, 11710613, 10372581,
       9895551, 9781463, 9831179, 9276810, 10070052, 10163113, 11161878, 10302608, 9072647, 9865810,
       10238368, 10982734, 10975197, 10629782, 10501094, 10169939, 10189581, 10616598, 11001046, 10092567,
       7296768, 9707001, 10677875, 10319530, 9345925, 9316873, 8169368, 9103144, 10511202, 10599524,
       11373658, 10545162, 9862552, 9485373, 10952874, 10547202, 11612278, 10257988, 11314914, 10453584,
       11639964, 10529371, 10742127, 10491071, 10075433, 10638901, 8398035, 9188103, 9753938, 9511871,
       9156754, 9404684, 12170942, 10717497, 9824115, 9187568, 10123204, 10806784, 10551485, 10376040,
       10043602, 10446372, 11695051, 10040430, 9377351, 9638266, 10194607, 10455237, 9257530, 9414302,
       8679978, 9488780, 9388231, 9909095, 9962964, 9202952, 9570698, 9775483, 9307580, 9020127,
       8593683, 9536329, 9916895, 9427372, 8495280, 9625969, 10760055, 10963689, 10082439, 10752934,
       8542449, 9500536, 9690791, 9922951, 9247844, 9594410, 10319174, 10510419, 11340450, 10446023,
       8124828, 9530355, 10115026, 10079147, 9839868, 9204434, 10671340, 10076450, 10213196, 10628237,
       9248031, 9668262, 9680947, 9064334, 9203975, 9143197, 11076007, 10138598, 10021311, 10648671,
       11901190, 10685753, 9939340, 9186186, 9291594, 9233090, 8486286, 9607388, 8196861, 9323745,
       8415865, 9056995, 10267126, 10651011, 10508725, 10023229, 8418810, 9297968, 10895038, 10314076,
       9516939, 9948317, 10146793, 10011985, 11612220, 10628255, 10896839, 10315865, 9731470, 9352095,
       9108808, 9774585, 7848185, 9598671, 9280847, 9680758, 9788870, 9761173, 9012821, 9472849,
       9868744, 9032908, 10076851, 10882958, 9775145, 9018192, 9349998, 9419177, 10168654, 10671966,
       10441940, 10649569, 8909601, 9922558, 11410932, 10379746, 9901412, 9867716, 10018849, 10622944,
       10708214, 10423256, 10233216, 10131263, 10953136, 10633913, 10287124, 10165201, 9387563, 9625360,
       10361503, 10525206, 8856274, 9792680, 10108559, 10705776, 9966771, 9009356, 9791884, 9142728,
       9871463, 9488562, 8118151, 9954503, 9451276, 9092260, 10092844, 10901141, 10159856, 10391997,
       8972325, 9859075, 11265707, 10840864, 9133826, 9151786, 10969457, 10200526, 10427194, 10361871,
       9353773, 9690157, 11775310, 10892609, 8806364, 9168244, 10919154, 10173610, 11000582, 10318042,
       9329380, 9790924, 11392465, 10300064, 9749954, 9485402, 10288693, 10629279, 10260321, 10838771,
       9865692, 9258530, 10810808, 10273159, 10793488, 10720552, 8251469, 9026762, 11304340, 10242878,
       8337509, 9011965, 11032546, 10204341, 11126705, 10136827, 8909034, 9569785, 9589186, 9712046,
       8894296, 9331515, 9785079, 9969712, 9691966, 9715815, 10779660, 10532269, 11310308, 10746119,
       11395683, 10810789, 9437832, 9973422, 9790779, 9126256, 8316562, 9807780, 9194130, 9933504,
       10964851, 10633097, 11615582, 10823548, 8765652, 9128121, 9407536, 9740848, 9973595, 9243042,
       10280161, 10158819, 9190397, 9480079, 10424061, 10044464, 9526161, 9652930, 9985548, 9729122,
       10546284, 10248003, 10006422, 10269810, 9563615, 9109474, 9890391, 9196075, 9911638, 9040795,
       9629989, 9970118, 9741204, 9937333, 11598647, 10170504, 10560919, 10447941, 9704520, 9681971,
       10696954, 10404510, 9666181, 9510244, 11173124, 10637586, 10369642, 10192198, 9892698, 9855996,
       10447716, 10925810, 8429124, 9847932, 8873233, 9531091, 8806075, 9993601, 10142943, 10094763,
       11732514, 10999485, 12231300, 10146192, 10638051, 10101440, 10500844, 10474944, 8198943, 9265848,
       9457327, 9200266, 9212217, 9248092, 9379153, 9401749, 9831857, 9181416, 9527910, 9422303,
       8020701, 9189625, 10747910, 10256117, 8927257, 9974261, 10239246, 10864111, 12074082, 10669749,
       9080616, 9408414, 7469713, 9477254, 9713996, 9778120, 11100959, 10634998, 11958347, 10454220,
       8770451, 9405548, 10496699, 10223236, 9534690, 9543220, 9894052, 9645696, 12644343, 10347017,
       8497030, 9671605, 10253739, 10661494, 10467693, 10171765, 11085786, 10324939, 10097983, 10153470,
       10308050, 10539504, 9608352, 9432579, 10269126, 10941245, 9656808, 9724503, 10621571, 10889856,
       9630390, 9663957, 10377100, 10393902, 9970738, 9186316, 11126050, 10250772, 9948607, 9276412,
       8226968, 9531794, 11261921, 10500713, 9094268, 9699138, 9346234, 9661352, 9404339, 9705957,
       11374438, 10093170, 7864326, 9786022, 13137748, 10533659, 11056056, 10809066, 10223238, 10914129,
       9945106, 9999384, 10285554, 10074857, 10521122, 10428379, 10645215, 10585950, 10555604, 10466003,
       10089580, 10681255, 9802662, 9579693, 9848727, 9716347, 9805092, 9719648, 11133770, 10096867,
       10593556, 10722280, 7059612, 9365336, 10655900, 10776529, 10194736, 10194718, 9981292, 9243555,
       9611482, 9546912, 11124112, 10719986, 10947526, 10462122, 9227123, 9332177, 10407052, 10287124,
       9028344, 9265459, 8620382, 9835212, 9373283, 9775411, 10862393, 10472382, 10953125, 10045376,
       10513085, 10420097, 10725095, 10786847, 10516178, 10287114, 9358519, 9404778, 10431922, 10544673,
       10800409, 10525227, 10754291, 10329813, 11188913, 10371474, 10708303, 10847201, 10351448, 10207541,
       11070150, 10238316, 9973479, 9740751, 9118126, 9348773, 9836934, 9036057, 9255098, 9355194,
       9324822, 9725026, 9855482, 9329285, 9207581, 9079001, 9692039, 9470361, 8106386, 9333047,
       10213293, 10707372, 10001205, 10475362, 9182912, 9368932, 10659245, 10668432, 10937570, 10137626,
       8392441, 9135632, 9237276, 9221434, 9230858, 9650213, 9060097, 9898892, 10829474, 10841931,
       9806174, 9861228, 9735486, 9158690, 7996138, 9635594, 10635418, 10030209, 8760742, 9605147,
       10059932, 10630266, 10277376, 10937958, 11360658, 10595838, 8691180, 9600881, 6980488, 9844180,
       10183849, 10544753, 11800511, 10181510, 11238946, 10352939, 10209659, 10415274, 9508364, 9814368,
       10807122, 10596637, 9026454, 9800296, 10476357, 10769356, 10505470, 10159166, 11060209, 10907498,
       12759660, 10038911, 10392415, 10967178, 9491037, 9374293, 9974426, 9687809, 8230925, 9095111,
       9305287, 9868911, 9590718, 9561887, 9475912, 9602066, 10152354, 10872033, 9177581, 9067618,
       11121030, 10667324, 10000207, 10064918, 9990700, 9678862, 9672106, 9283488, 10155190, 10683858,
       10825098, 10264667, 9132870, 9784290, 9341884, 9510925, 9696274, 9971224, 8654130, 9076527,
       9180743, 9140279, 9523780, 9126456, 10874389, 10180712, 10262561, 10329001, 10193589, 10911367,
       10850897, 10962167, 9862629, 9211601, 10390464, 10849928, 9896779, 9247068, 10265362, 10349399,
       9417242, 9342389, 7561183, 9841724, 9865721, 9837814, 11422748, 10136099, 10926215, 10402241,
       10965397, 10484591, 11236130, 10721806, 10088657, 10590961, 10197315, 10707405, 9382349, 9104566,
       9683928, 9143973, 10615771, 10149771, 11203884, 10437168, 9860554, 9724320, 9549811, 9735149,
       10000527, 10958856, 10601206, 10748929, 8556146, 9183867, 7703820, 9046863, 9449464, 9150509,
       8779288, 9574086, 9491860, 9802353, 9852220, 9681183, 9546752, 9590977, 11452467, 10534470,
       10326744, 10764602, 10300474, 10359610, 10622207, 10144043, 8861167, 9882220, 11039111, 10787420,
       9924236, 9713465, 10670480, 10617241, 8928143, 9766960, 8446242, 9233984, 10817889, 10658025,
       10376409, 10526097, 9097949, 9445643, 9130337, 9918726, 11125434, 10784414, 8810589, 9107133,
       11642672, 10953255, 9099380, 9265353, 10638391, 10925608, 9671382, 9524252, 10603187, 10431082,
       9455886, 9997886, 9837208, 9093928, 10040919, 10175395, 8997813, 9544219, 10740824, 10345420,
       9486787, 9433529, 9771401, 9084660, 9005651, 9625392, 7437667, 9341205, 9808973, 9237400,
       12412615, 10421612, 10784604, 10287898, 9980740, 9620266, 9737110, 9170792, 10022465, 10892812,
       10547119, 10115175, 8819188, 9184692, 11114321, 10694668, 10715381, 10315441, 10718185, 10725707,
       10438475, 10738809, 10019616, 10657693, 10672861, 10235966, 10591814, 10133741, 9645960, 9289059,
       9426399, 9227104, 10101856, 10295261, 11549020, 10151495, 8760893, 9924347, 8532475, 9734248,
       10164760, 10841236, 10050887, 10701856, 10173341, 10664370, 10243953, 10197908, 9776798, 9745366,
       11489863, 10438602, 8399097, 9021524, 9171503, 9975220, 9896746, 9239851, 8356812, 9188846,
       9824146, 9595568, 11661470, 10165728, 10020886, 10488295, 10230700, 10905718, 8739836, 9234828,
       9383639, 9591961, 9624804, 9619677, 9682285, 9903244, 11281643, 10795003, 10557691, 10060725,
       8888543, 9043063, 10246504, 10778432, 10498221, 10748496, 11140149, 10038521, 11580540, 10686568,
       8984906, 9808173, 9189143, 9488790, 8742423, 9141086, 9765981, 9140894, 10466358, 10374446,
       10987334, 10516589, 9924049, 9976358, 9680153, 9476746, 10151757, 10992248, 9164858, 9098370,
       12089538, 10721694, 8392339, 9972882, 10184740, 10578895, 12023606, 10219229, 10006799, 10844559,
       9809961, 9964999, 9642555, 9577190, 9819609, 9318238, 11372848, 10474676, 7788139, 9088671,
       11533433, 10701296, 8576043, 9847550, 9733348, 9670766, 9570756, 9579702, 10588553, 10269770,
       8401876, 9648117, 10462172, 10666081, 12024309, 10623286, 8636826, 9995408, 10189706, 10167610,
       9338018, 9822204, 10425887, 10206193, 10019147, 10777415, 9358514, 9090956, 10487872, 10284871,
       11804348, 10109786, 9809097, 9208273, 10719757, 10942148, 8706728, 9042129, 9043564, 9623182,
       10472406, 10277880, 11484116, 10028535, 10355613, 10348785, 9686942, 9969477, 9999292, 9405424,
       8749593, 9266031, 10604515, 10326355, 10882333, 10062323, 9547910, 9667167, 9529958, 9852241,
       10265878, 10229652, 9563281, 9263960, 9933868, 9385375, 12099721, 10789166, 9752975, 9299255,
       9641660, 9847979, 9352459, 9194365, 10744191, 10971499, 9818776, 9826782, 9350627, 9961679,
       11321304, 10032273, 11419603, 10004513, 9399577, 9434262, 8133461, 9048640, 11007513, 10689836,
       9315371, 9174240, 10790625, 10599162, 8029897, 9182289, 10892597, 10338299, 8788829, 9070720,
       10730764, 10119066, 10014273, 10067836, 9046061, 9580604, 9592964, 9687074, 10686318, 10456956,
       10105894, 10453115, 10584412, 10980472, 11976440, 10584515, 8435759, 9388289, 11617212, 10574968,
       10104355, 10937523, 9101216, 9951677, 8669687, 9374262, 9810880, 9609223, 10921650, 10111924,
       9872451, 9879623, 11511154, 10930247, 8548825, 9309949, 9987912, 9052154, 8747607, 9555587,
       10363631, 10882624, 10886887, 10390097, 9579239, 9206319, 7395787, 9143373, 10198948, 10146796,
       10436738, 10551733, 10404294, 10754961, 11235782, 10191822, 8928947, 9320351, 10680216, 10105450,
       11192507, 10512477, 8221413, 9415994, 10319651, 10825918, 9495821, 9168993, 9918478, 9326899,
       10347676, 10483538, 9512772, 9435887, 9324292, 9920839, 10034152, 10417488, 8912755, 9061138,
       8914175, 9871115, 10679373, 10282956, 8851206, 9964842, 10666312, 10500909, 10462591, 10292853,
       8274194, 9271210, 9322436, 9347665, 11194109, 10403047, 9018835, 9468861, 9535596, 9737691,
       10462060, 10893251, 10783390, 10509282, 9748462, 9113956, 9402490, 9805309, 11422369, 10861698,
       11738899, 10663797, 10978858, 10050781, 10085318, 10142565, 9191735, 9278360, 9169556, 9593444,
       10522514, 10105265, 10418398, 10220888, 11401598, 10592946, 10650450, 10092536, 8496920, 9698241,
       11051947, 10617722, 9001940, 9372686, 9616029, 9728048, 10250200, 10206251, 11995667, 10489783,
       13109918, 10556005, 10606723, 10059136, 9816804, 9381280, 10534505, 10648480, 10887655, 10425873,
       9679333, 9374443, 11795211, 10355912, 10230070, 10759191, 10497743, 10089091, 10665924, 10252054,
       10421586, 10610614, 10838940, 10500469, 9382747, 9813454, 9441699, 9246054, 8899846, 9767029,
       10439501, 10230620, 10778936, 10503512, 10457772, 10866151, 11674492, 10433347, 9994404, 9981171,
       10668741, 10655592, 8908300, 9123861, 9612901, 9297526, 10695537, 10757565, 10849102, 10110743,
       9706034, 9052336, 9928401, 9748142, 8482127, 9253320, 9642971, 9799194, 10890383, 10163519,
       10575205, 10016106, 10500665, 10721381, 10049773, 10687180, 10007063, 10158628, 9339679, 9860527,
       10698828, 10420202, 10420972, 10944389, 10492018, 10847992, 9473966, 9157333, 7846658, 9080129,
       11097152, 10711753, 9521163, 9543992, 9137225, 9235957, 10693478, 10911913, 9607988, 9360081,
       11059936, 10384046, 10617005, 10949576, 10683569, 10323200, 8634045, 9288800, 11211943, 10985386,
       10261250, 10531233, 9630723, 9860754, 10143388, 10467342, 8223765, 9767102, 10408652, 10811480,
       8970629, 9491818, 8647330, 9714157, 8477641, 9813783, 11112688, 10374989, 9370737, 9606308,
       11533727, 10709916, 9464199, 9536948, 8292643, 9042408, 8883476, 9560052, 11235811, 10620006,
       9844102, 9822064, 9451713, 9703510, 10160018, 10225852, 10501782, 10736167, 11117398, 10815902,
       11448499, 10229892, 9640232, 9354211, 8673953, 9313918, 9586535, 9838877, 10260280, 10506582,
       9036242, 9073790, 9042850, 9085105, 10343787, 10881549, 9951348, 9648430, 10032796, 10995411,
       9241505, 9665300, 9769600, 9285795, 9075767, 9855732, 10890198, 10411124, 11035249, 10334723,
       8153813, 9137762, 9070490, 9139808, 8503471, 9744910, 9349977, 9065594, 9916563, 9030210,
       8550355, 9780302, 9078141, 9186875, 8996043, 9627919, 10207267, 10329398, 10069344, 10337036,
       9278263, 9446663, 10176820, 10872139, 9453320, 9915413, 9728345, 9889674, 11673452, 10090298,
       11340461, 10051790, 8700419, 9763073, 10829732, 10417879, 10811396, 10554491, 8851737, 9711248,
       10818777, 10643754, 11537931, 10918412, 8877456, 9193756, 9082498, 9178986, 11017661, 10466843,
       10271495, 10310825, 10551476, 10275239, 10340589, 10216400, 10390695, 10920928, 8673528, 9871689,
       11047317, 10706621, 11169589, 10992427, 9770610, 9255932, 9956524, 9050187, 8468893, 9497445,
       10514254, 10756017, 10572057, 10441714, 9937809, 9983001, 11124353, 10359870, 9665923, 9769021,
       10564605, 10925893, 8980336, 9661308, 9976448, 9849126, 9825646, 9742098, 10225307, 10922040,
       9630474, 9071167, 9868528, 9404329, 10826047, 10171441, 9563236, 9762762, 8393423, 9899262,
       11749583, 10904205, 11381454, 10078690, 8707738, 9304895, 10689707, 10805245, 9497026, 9229449,
       10263487, 10215331, 10294224, 10129013, 9765593, 9199684, 9216235, 9334414, 9309459, 9947684,
       9083809, 9084519, 9168178, 9791770, 9932822, 9709951, 9284241, 9010890, 10682052, 10065712,
       11487246, 10155335, 9419947, 9758630, 10239404, 10500535, 10499685, 10110302, 10472002, 10270919,
       10075955, 10267916, 10742682, 10418359, 10482248, 10952680, 8762338, 9577673, 10869156, 10064389,
       10887290, 10837266, 9236714, 9895822, 10037937, 10835447, 10683328, 10992811, 9790687, 9180421,
       11072978, 10047766, 12363872, 10494619, 9214014, 9967366, 8618956, 9396847, 10303818, 10595604,
       10721562, 10505126, 9769134, 9626156, 11453260, 10663321, 8661395, 9200277, 10692918, 10623031,
       9394140, 9179242, 11719377, 10906207, 11992515, 10353168, 9233344, 9412217, 9450443, 9864092,
       10859587, 10886979, 9612870, 9350211, 9954589, 9782068, 10025388, 10420542, 8080327, 9843803,
       9986163, 9253906, 9310273, 9225936, 9506878, 9177601, 11443632, 10003468, 8743494, 9105721,
       10813205, 10186747, 9721038, 9069669, 9720240, 9831505, 10790371, 10896051, 10340051, 10294568,
       10570612, 10997219, 10968184, 10660532, 9668692, 9616817, 9387764, 9265493, 8914850, 9473443,
       9174590, 9470022, 12949094, 10425308, 11244679, 10580736, 8648926, 9633792, 8677543, 9043257,
       10481866, 10061718, 10547264, 10797377, 10548883, 10835317, 9745045, 9206447, 9874546, 9739998,
       10327879, 10524159, 10085893, 10006293, 7780700, 9627253, 9770201, 9369425, 9148594, 9565740,
       10175211, 10418908, 12985259, 10002603, 10367481, 10665474, 9686471, 9313828, 10921801, 10501977,
       10482687, 10887209, 10420094, 10490451, 10606850, 10593215, 12056543, 10564829, 8869112, 9564675,
       10473632, 10076811, 9073619, 9870019, 10555512, 10646342, 9081314, 9488514, 9582634, 9186395,
       9704911, 9085763, 10975816, 10719344, 10918454, 10443942, 8754283, 9623554, 10054934, 10110999,
       9290421, 9145251, 8741496, 9089325, 9782983, 9949576, 9691518, 9211545, 12426716, 10486345,
       10432959, 10825360, 8622383, 9499246, 9435226, 9995830, 11021383, 10295429, 12088442, 10772869,
       8414017, 9687763, 8120076, 9614861, 11870965, 10175371, 10389614, 10177370, 9131708, 9268124,
       10534629, 10086122, 7364253, 9260984, 10003375, 10506597, 10327821, 10172843, 10924270, 10139537,
       8986105, 9047708, 10085687, 10161403, 9074576, 9373941, 10255383, 10755674, 9104654, 9677637,
       9591900, 9160840, 9004185, 9605210, 10651136, 10241823, 10858451, 10116656, 9765380, 9430043,
       10038237, 10994960, 8551409, 9585367, 9700324, 9351994, 9949796, 9382959, 12620793, 10091029,
       8888033, 9974226, 11464177, 10238752, 10996858, 10773465, 10280636, 10404490, 11758620, 10484195,
       10372105, 10472606, 10389159, 10195667, 9946880, 9346983, 11223568, 10882418, 11096469, 10233810,
       9374323, 9712504, 8680753, 9805402, 9797020, 9362605, 9199962, 9435603, 9936476, 9425385,
       11237438, 10134684, 9542699, 9344914, 9957177, 9618689, 10058022, 10734808, 10848430, 10882205,
       7753111, 9666016, 9393300, 9705235, 10211283, 10692279, 11200078, 10956426, 9508098, 9552494,
       8123448, 9293959, 10619711, 10445966, 9364638, 9611175, 8810334, 9340910, 9375655, 9610287,
       9815475, 9642345, 9395256, 9335462, 7794434, 9942901, 10897066, 10196887, 11274875, 10041278,
       10651521, 10991339, 8862315, 9329576, 9798509, 9466053, 9993479, 9684771, 10598794, 10389561,
       10668340, 10488718, 9265827, 9201222, 10081995, 10556413, 10457280, 10404615, 11455822, 10322146,
       10704506, 10539824, 10789056, 10687375, 10083826, 10627929, 11410459, 10145203, 10409762, 10795959,
       9138913, 9089827, 11403369, 10970125, 10697903, 10272539, 9556956, 9978872, 9520508, 9032601,
       10296575, 10545140, 10463184, 10795267, 10197292, 10265631, 10311308, 10673442, 11699957, 10374576,
       11071543, 10152234, 10190635, 10591265, 10941310, 10580767, 8967477, 9096473, 10397927, 10049946,
       11809306, 10349733, 9781955, 9104608, 9152367, 9071381, 9347912, 9111407, 8910367, 9962658,
       9215239, 9091873, 9629492, 9901410, 8594433, 9980822, 10015618, 10333949, 10902277, 10173786,
       9092244, 9819854, 11519283, 10923641, 10510792, 10088527, 11030580, 10585624, 9342166, 9446148,
       10854525, 10227066, 8908067, 9099605, 10890247, 10500836, 10171839, 10339793, 10553251, 10219984,
       8824406, 9394376, 9104931, 9157724, 10597228, 10218253, 9051652, 9995776, 10463206, 10292099,
       8632863, 9193540, 10848174, 10212666, 8767477, 9685232, 10552299, 10937679, 10625630, 10933646,
       9303229, 9181571, 10582026, 10567084, 10260442, 10263333, 9461159, 9143808, 8991446, 9315924,
       8037375, 9308328, 10349650, 10047299, 8435198, 9228638, 10095344, 10199441, 9736552, 9783918,
       10679142, 10775438, 9697955, 9500511, 9670553, 9213653, 10731870, 10704288, 10335058, 10029084,
       10316155, 10957182, 10469267, 10589808, 8464428, 9876793, 10756788, 10679986, 10612468, 10794013,
       8983317, 9871424, 9755920, 9526326, 9960693, 9712373, 9865504, 9215599, 10333859, 10966568,
       11431366, 10781831, 11081766, 10727672, 8687781, 9806569, 10622069, 10990306, 11328933, 10319535,
       10386808, 10520689, 11090980, 10425185, 12012270, 10445700, 11023709, 10546106, 10249308, 10595641,
       11045088, 10474084, 10144887, 10833096, 10023903, 10043284, 9648586, 9764287, 11563413, 10358832,
       9181572, 9334058, 11532367, 10724678, 10499864, 10123740, 8600694, 9825199, 10367649, 10292991,
       7899974, 9492349, 10625508, 10016831, 10885231, 10482988, 9407645, 9044348, 10123547, 10695955,
       11954157, 10433750, 9494254, 9295739, 8941093, 9412944, 11481663, 10402462, 11962587, 10190530,
       10003695, 10671847, 11011463, 10035408, 11341475, 10915530, 9257516, 9767462, 9514695, 9164633,
       11230874, 10513154, 11685014, 10278708, 10562880, 10860174, 9120186, 9646498, 11987061, 10111699,
       9469030, 9102189, 9664863, 9218829, 10342337, 10834489, 11554160, 10420714, 10853975, 10976552,
       10414865, 10500361, 10463288, 10530118, 10043514, 10668643, 10558139, 10514518, 7470440, 9922306,
       9703393, 9540931, 10241321, 10934916, 8848986, 9916381, 10386323, 10317811, 9795529, 9779014,
       11755475, 10698315, 11573019, 10725214, 9534195, 9430882, 9849163, 9288434, 9926053, 9434392,
       9548341, 9523841, 10195024, 10984028, 9241718, 9931113, 8869385, 9665063, 10622711, 10223900,
       10629529, 10584221, 9195685, 9240341, 10895355, 10430762, 9368423, 9270835, 10253165, 10238037,
       10820344, 10012612, 9966388, 9435297, 10454740, 10912141, 9483571, 9356113, 9803534, 9416572,
       9794141, 9569120, 9253422, 9653460, 9823226, 9836885, 8451382, 9701137, 9508847, 9252858,
       9715125, 9506631, 9743821, 9247505, 9758503, 9554130, 9938236, 9800140, 10479441, 10518086,
       10874517, 10074132, 9350235, 9773152, 8796800, 9144611, 8957956, 9587757, 9512798, 9078806,
       9648079, 9682184, 9230004, 9933803, 8703884, 9335751, 9543880, 9172526, 10181426, 10620113,
       10595029, 10465835, 9442577, 9946892, 9587003, 9177857, 9073302, 9691153, 9968561, 9829626,
       9151572, 9365810, 10573127, 10813241, 8214134, 9508066, 9640371, 9327548, 10301107, 10339191,
       10183834, 10516322, 12693033, 10663980, 10349800, 10024567, 8995946, 9403158, 9904536, 9752911,
       8223754, 9666534, 9919401, 9250704, 9166944, 9943000, 10915390, 10275560, 9450460, 9725405,
       9883235, 9084205, 9364443, 9158596, 11738851, 10351853, 9678758, 9233883, 11832557, 10043479,
       10814151, 10762118, 10482066, 10727335, 10368733, 10147317, 10393797, 10298216, 8072328, 9420655,
       9721117, 9605850, 10845157, 10971184, 9951103, 9816526, 8594811, 9153197, 9947596, 9549423,
       11704105, 10516255, 11246891, 10715534, 9937996, 9990634, 10951449, 10277058, 9633493, 9979632,
       8296129, 9413174, 9075535, 9011871, 11562888, 10768508, 9726007, 9918171, 9756617, 9020625,
       9700162, 9803726, 11904136, 10589573, 11625958, 10915362, 12218780, 10233448, 9840955, 9789600,
       10295624, 10488747, 8483358, 9450580, 11476934, 10426118, 8832221, 9448733, 10216775, 10563762,
       8902698, 9472368, 9411134, 9173262, 9162738, 9568951, 9392125, 9739325, 9460878, 9296852,
       9451732, 9205075, 10833333, 10911780, 8895138, 9206938, 10220541, 10427013, 11217959, 10152305,
       9486804, 9635487, 9282082, 9109253, 9769476, 9374820, 11179725, 10208360, 10194107, 10630953,
       9468786, 9705393, 10483876, 10651188, 8897708, 9850164, 10681359, 10510442, 10408607, 10307701,
       9692192, 9528862, 9161415, 9201553, 9113320, 9077717, 10534817, 10336345, 11228980, 10502489,
       9362693, 9252972, 10458386, 10703551, 7912973, 9981398, 9415383, 9269343, 9968942, 9067130,
       9090317, 9583019, 9063494, 9625211, 9332221, 9443532, 10292192, 10728326, 9812671, 9981594,
       7761769, 9766676, 7879300, 9847365, 9393135, 9822143, 10457686, 10586053, 7252496, 9157275,
       9500270, 9823849, 9473753, 9143483, 11388337, 10778208, 9614979, 9188288, 10382988, 10984740,
       10141257, 10140087, 7869434, 9520193, 10768207, 10216631, 10215396, 10505456, 10508268, 10639674,
       13926237, 10706436, 7915888, 9060502, 11724696, 10649761, 9712553, 9480600, 10287328, 10904403,
       9954488, 9754699, 9575764, 9666602, 9430168, 9071762, 10329508, 10735573, 8482827, 9303329,
       10750579, 10167521, 9583806, 9595115, 8869931, 9660960, 9549988, 9142005, 11257149, 10216862,
       9464665, 9912984, 10358453, 10618209, 9269044, 9724285, 10757921, 10849923, 10685507, 10738790,
       11848608, 10833296, 9824437, 9054501, 10668654, 10804757, 10098067, 10539538, 11295871, 10781863,
       9281168, 9612392, 10745005, 10312877, 9805303, 9703884, 9935812, 9822892, 10091752, 10484448,
       10252240, 10396426, 9883771, 9956879, 10214713, 10183170, 11578118, 10057562, 10985449, 10685615,
       10869154, 10592496, 9544461, 9473977, 9110760, 9171772, 10955300, 10558237, 10876046, 10792529,
       11472670, 10675750, 9396020, 9374031, 9770452, 9344640, 8360516, 9837475, 9607529, 9893940,
       10996570, 10510579, 9533505, 9620772, 10640479, 10795200, 9809497, 9894003, 10324057, 10028221,
       8852309, 9610185, 10085209, 10449633, 7008865, 9029100, 9813104, 9841839, 8369527, 9756285,
       11205994, 10516546, 10777407, 10352764, 10466670, 10981966, 11521006, 10227159, 9051084, 9479176,
       11747363, 10197915, 10932191, 10564260, 9763445, 9712782, 11135620, 10147182, 8893707, 9487589,
       9175486, 9838473, 9391411, 9276761, 9471023, 9291936, 8943443, 9357240, 11223083, 10067095,
       9741146, 9599631, 10352504, 10968356, 9429649, 9633587, 8179397, 9699452, 10270057, 10358391,
       8087746, 9024581, 9931366, 9953915, 8631685, 9961168, 11987275, 10999230, 10911362, 10722174,
       10105753, 10791271, 11263706, 10677654, 9153685, 9022535, 10543479, 10378670, 10199810, 10433718,
       10264020, 10081333, 11272353, 10500106, 10732492, 10102779, 10288723, 10662825, 8345113, 9563772,
       9039954, 9704721, 9877292, 9066405, 10093372, 10374276, 8869797, 9275327, 12411676, 10675578,
       11516394, 10055253, 10602118, 10320392, 10072036, 10861283, 9787792, 9030099, 9048082, 9539978,
       10077480, 10518518, 10257752, 10540142, 8758240, 9424519, 10334176, 10417244, 9844741, 9951176,
       8092193, 9442123, 9139615, 9989221, 9586395, 9466579, 11887687, 10657340, 10556553, 10124533,
       8664519, 9430901, 10486036, 10289417, 8452697, 9011062, 11082691, 10053887, 9528876, 9348183,
       9906364, 9811261, 11325796, 10647542, 8712837, 9431416, 8602882, 9814888, 9416401, 9673654,
       11038378, 10851019, 8480654, 9924524, 7167845, 9401890, 9548842, 9141592, 10551740, 10799910,
       11200261, 10749738, 9536839, 9637915, 9588574, 9392884, 11153900, 10734255, 8130259, 9300305,
       9611480, 9224817, 10190423, 10889925, 10449218, 10721285, 9490194, 9306810, 10034441, 10011705,
       7511673, 9646588, 9341752, 9587667, 10453508, 10712554, 9017706, 9965746, 10058984, 10221589,
       10446872, 10500802, 9657451, 9799143, 10170463, 10770996, 9037268, 9434716, 9793389, 9720304,
       10610216, 10169589, 10156972, 10960968, 9413469, 9730437, 10224216, 10404290, 10714609, 10790636,
       7950059, 9721423, 11159074, 10064955, 9663746, 9261319, 10425489, 10933240, 11197246, 10923645,
       8628327, 9302770, 9290559, 9997573, 9711452, 9304125, 9216247, 9478876, 11734936, 10575836,
       9143228, 9906174, 9444454, 9220514, 10204389, 10031602, 8797851, 9473924, 9604320, 9288244,
       10317453, 10261250, 9667140, 9595618, 9906614, 9141101, 9470668, 9887552, 8485530, 9690820,
       10321593, 10211339, 11754933, 10071647, 10018401, 10630783, 10225264, 10117247, 10692722, 10755116,
       8730670, 9503454, 11702514, 10658129, 10202328, 10796422, 11631856, 10899089, 9266968, 9004477,
       11818061, 10922557, 10775155, 10494034, 10553040, 10085852, 10234024, 10454353, 9751472, 9381926,
       11200531, 10658473, 10140359, 10869848, 8032931, 9296413, 8882814, 9538293, 9814155, 9247808,
       10309998, 10983165, 9943412, 9511101, 11218970, 10789793, 8048899, 9135962, 10143587, 10936505,
       8182021, 9774613, 10759712, 10295484, 9905542, 9285558, 10419609, 10972024, 9136118, 9039411,
       11279464, 10931657, 11041724, 10664058, 10583544, 10303011, 9870483, 9753137, 10579857, 10285295,
       9293108, 9432013, 10855555, 10659020, 11649480, 10894323, 11070610, 10559979, 9270398, 9530193,
       10361417, 10317273, 8706859, 9456242, 10572390, 10311175, 10450603, 10412862, 8130184, 9660468,
       8838217, 9156088, 9716862, 9103257, 9699141, 9252860, 8790524, 9064582, 10388978, 10729352,
       10251473, 10608940, 9805731, 9868022, 9244209, 9499842, 11048707, 10126416, 11655407, 10113088,
       9516439, 9516154, 9387834, 9082846, 10491207, 10665411, 9641971, 9620254, 9860603, 9799337,
       10739653, 10151724, 8090644, 9912493, 11318302, 10324852, 10072680, 10524329, 9588507, 9855438,
       9910766, 9845779, 9962430, 9355021, 8268799, 9696556, 11494938, 10227453, 10041325, 10632270,
       10443002, 10130447, 10951549, 10770574, 8978838, 9542440, 10473471, 10899035, 9732359, 9909102,
       10846770, 10775216, 7872773, 9579649, 9900906, 9699759, 9397180, 9344217, 10432262, 10950634,
       10470044, 10187368, 9292375, 9105178, 9287827, 9135824, 9889335, 9631443, 9103358, 9772685,
       10841983, 10695452, 9630793, 9799553, 7093012, 9780679, 9625178, 9943379, 8961457, 9179157,
       8368725, 9184540, 8762574, 9361778, 10109408, 10471832, 11328640, 10828248, 10313184, 10473864,
       9393497, 9611785, 10455904, 10195170, 9540910, 9689782, 9305400, 9630837, 8845638, 9331768,
       8248172, 9193249, 9610077, 9293441, 10158053, 10489920, 9903377, 9329986, 9584034, 9072053,
       9054254, 9939304, 10608246, 10191684, 8682869, 9080054, 10776027, 10913843, 8997783, 9981074,
       9247565, 9762647, 8533215, 9809385, 9498598, 9853115, 10975312, 10458477, 10515628, 10088443,
       10978422, 10112028, 10522142, 10545933, 8896331, 9171470, 9669211, 9775673, 9219801, 9870883,
       11330574, 10904039, 8803212, 9353574, 10893697, 10689389, 10892953, 10870108, 11829620, 10201716,
       9590314, 9407371, 10712322, 10159580, 12281651, 10836538, 9382359, 9323067, 8464960, 9752468,
       8119990, 9966093, 10712712, 10028861, 8116850, 9791942, 9627681, 9947063, 10437313, 10187038,
       10185175, 10536829, 10425444, 10864184, 10222289, 10855800, 11278865, 10813313, 9047684, 9619262,
       9323005, 9861542, 9227341, 9554730, 10830191, 10811862, 10900398, 10588395, 10451225, 10319318,
       11183493, 10666889, 8821960, 9132624, 11667224, 10111551, 11523238, 10621712, 10735621, 10997245,
       11781798, 10908771, 8343377, 9792323, 9475552, 9863738, 9264697, 9539319, 10721479, 10323757,
       8949860, 9260398, 10757495, 10149337, 11370536, 10143996, 10695202, 10900083, 10283751, 10023661,
       9012127, 9659100, 9153150, 9033875, 11249618, 10905296, 10779349, 10003905, 9960981, 9480623,
       9582091, 9454235, 7974193, 9126889, 8929148, 9581316, 11911419, 10087139, 8719545, 9428998,
       10189479, 10821221, 11007443, 10973195, 8745078, 9331998, 10184710, 10474781, 10937915, 10537510,
       10012499, 10321907, 12868403, 10055666, 8331401, 9741122, 11058728, 10529883, 9827199, 9262604,
       10771920, 10154836, 10441307, 10151699, 9266844, 9802891, 10228996, 10392459, 8142099, 9548602,
       10603247, 10500571, 10298158, 10465990, 10638660, 10168643, 11058118, 10325087, 10367619, 10840209,
       10148089, 10419798, 9118932, 9663339, 9287780, 9236351, 11186734, 10620177, 11436335, 10405705,
       9761890, 9563688, 10046002, 10747253, 9095386, 9625007, 11172756, 10845267, 10665416, 10823691,
       11941217, 10436463, 9121677, 9922821, 9621993, 9100982, 10231445, 10922525, 10646489, 10537725,
       9784333, 9362453, 9127039, 9909547, 10881407, 10528923, 10721135, 10362545, 9083726, 9899437,
       11355442, 10801105, 11170198, 10709196, 10134296, 10497247, 10079597, 10862376, 10554057, 10771115,
       9138297, 9929744, 10030031, 10479164, 7847617, 9455391, 10876455, 10645502, 8438507, 9777559,
       11503419, 10828428, 9669880, 9906034, 9788334, 9018069, 9372267, 9093916, 9711962, 9126078,
       11418531, 10345148, 7512192, 9343465, 11276965, 10386088, 10338023, 10481101, 8792979, 9352143,
       8924688, 9606951, 11676393, 10027208, 9054494, 9120058, 8846650, 9489405, 11137314, 10542364,
       10338552, 10876285, 9062075, 9423464, 10216624, 10975404, 8974248, 9316360, 11100821, 10398422,
       11061370, 10964873, 10532006, 10198821, 10361661, 10061247, 11761188, 10124867, 9999687, 9327389,
       8818126, 9874580, 10449473, 10912832, 12086047, 10049537, 8985241, 9506815, 9638538, 9233307,
       10416446, 10038101, 9946096, 9150995, 9017697, 9419623, 11121857, 10856230, 12320040, 10722017,
       10196131, 10459023, 9095932, 9710264, 8451040, 9474947, 10257975, 10981221, 11103877, 10343316,
       10475167, 10746495, 9997597, 9159082, 9410729, 9348211, 8907837, 9367282, 10834751, 10326324,
       10913771, 10621385, 8454271, 9213310, 11589838, 10978180, 10574071, 10220894, 11399594, 10645145,
       8657873, 9251515, 8634176, 9844585, 9851031, 9690233, 10502784, 10426895, 11796360, 10822926,
       10706078, 10913815, 9757319, 9723188, 8973631, 9792335, 11230000, 10572719, 9035295, 9574250,
       11628468, 10554772, 9715616, 9350394, 11590582, 10072617, 10678931, 10290059, 9863005, 9510558,
       9480604, 9628174, 9659093, 9122654, 10428316, 10692375, 10077156, 10496217, 9406189, 9591932,
       9834369, 9589683, 10078577, 10029719, 7871266, 9905586, 10458168, 10114788, 9020279, 9775284,
       8846668, 9596795, 8312656, 9652890, 8206108, 9502133, 8644553, 9496888, 9290980, 9042370,
       11953259, 10137526, 9474121, 9324105, 10177750, 10106268, 10400481, 10386506, 10131065, 10186215,
       9922557, 9539275, 8804707, 9236401, 11450927, 10548279, 11807196, 10643637, 8317342, 9305878,
       8975972, 9409114, 9720190, 9657623, 9035463, 9205090, 10505965, 10553455, 9271728, 9797594,
       12165056, 10067806, 11190548, 10594343, 10212574, 10030632, 11026986, 10263319, 11105900, 10424357,
       9436053, 9511942, 9183783, 9755459, 10078143, 10062969, 10861636, 10124497, 10139060, 10398653,
       8423004, 9517810, 9197176, 9556050, 9926028, 9136406, 9924335, 9395675, 11972542, 10176789,
       8614013, 9057602, 10505589, 10241835, 11489113, 10108328, 12271449, 10745422, 9595603, 9576817,
       10491429, 10452720, 10569760, 10357198, 10195481, 10731553, 9901155, 9798761, 10435975, 10389500,
       7467754, 9914781, 10682069, 10490062, 10126177, 10903661, 9777526, 9103222, 12046862, 10195719,
       9325066, 9981210, 9596925, 9010935, 11991553, 10302204, 9167939, 9695151, 9449885, 9717064,
       9852975, 9576570, 10840734, 10482129, 10207802, 10507353, 8707375, 9652848, 9467832, 9436873,
       9392646, 9566788, 9922779, 9954777, 10425843, 10658629, 10418205, 10755887, 8223989, 9245952,
       11063940, 10987560, 10252568, 10845996, 11384532, 10047593, 10444198, 10327290, 11101322, 10957735,
       10466545, 10311450, 11346225, 10756202, 10522250, 10636017, 9902085, 9753558, 12272434, 10720446,
       10889037, 10122279, 10573744, 10421004, 8723696, 9583462, 8711693, 9382537, 10292715, 10482141,
       10145521, 10197768, 9385878, 9434992, 10140982, 10699612, 11588626, 10928043, 10695402, 10474550,
       8858992, 9490248, 9888492, 9172858, 9195034, 9519148, 9612301, 9083592, 9586385, 9334371,
       9522355, 9417396, 8744865, 9628027, 9872346, 9318482, 9439393, 9363153, 7070552, 9309998,
       12052972, 10024501, 11088769, 10654216, 9623700, 9275076, 10018819, 10049740, 8828346, 9652683,
       11695722, 10877810, 11897288, 10694773, 10156693, 10728246, 11023530, 10644185, 10175286, 10778933,
       8663275, 9561125, 9588177, 9631037, 10131927, 10966771, 9545453, 9281257, 9781347, 9722565,
       9908601, 9442491, 9919122, 9502135, 10052258, 10490497, 8939395, 9933604, 9282984, 9850873,
       8715416, 9734301, 10977815, 10549686, 7894354, 9058160, 11153590, 10343316, 11386349, 10397262,
       9697820, 9413018, 7396863, 9912173, 9638690, 9438033, 9935816, 9838712, 8989402, 9780072,
       9484782, 9606192, 11530195, 10198863, 10664927, 10162301, 9075436, 9885622, 8402401, 9830405,
       9672983, 9682391, 9786544, 9220650, 10496199, 10187363, 9464684, 9287433, 10511499, 10575361,
       11935154, 10040060, 10815501, 10022444, 9951912, 9492670, 9816850, 9528947, 9643327, 9865821,
       11180640, 10912452, 9372687, 9554049, 10045222, 10708999, 10051197, 10901881, 9498216, 9807189,
       8627535, 9452116, 10322974, 10503617, 9938997, 9028145, 10500240, 10469436, 9466400, 9693561,
       11220821, 10298813, 9123227, 9218789, 11712040, 10284017, 8252364, 9490172, 10434770, 10064556,
       10475430, 10682526, 9204443, 9932060, 10424393, 10937861, 11279518, 10669760, 7783182, 9160646,
       10502744, 10807490, 7506730, 9179670, 9034336, 9196477, 11629166, 10364900, 9418218, 9966608,
       8826121, 9035592, 9802063, 9271016, 12067906, 10338163, 8168318, 9752794, 8948691, 9088361,
       11497431, 10683179, 11857702, 10343537, 9896569, 9775710, 8760948, 9297474, 12095843, 10501809,
       11594442, 10391749, 10678946, 10987762, 9187598, 9651063, 9950971, 9659162, 9839640, 9918956,
       10330851, 10304615, 11451001, 10438131, 10879417, 10041137, 8922624, 9923016, 11376496, 10450019,
       10313132, 10140013, 10687065, 10795858, 11466540, 10859278, 8888420, 9750487, 9964175, 9421294,
       9468546, 9448641, 8432141, 9574635, 10346709, 10977604, 12511556, 10551584, 8159923, 9255495,
       9967720, 9388951, 10640542, 10935074, 10123078, 10201656, 9886872, 9947485, 8700784, 9636555,
       10232786, 10742940, 9243237, 9022985, 7810079, 9295022, 11194592, 10220513, 10958385, 10819842,
       10051660, 10976851, 10229074, 10688205, 11074318, 10012715, 10224339, 10656778, 10904017, 10554761,
       9702518, 9799127, 11311983, 10738573, 10320785, 10725932, 10194051, 10943605, 8729939, 9911288,
       10286955, 10854301, 9168046, 9082506, 9361718, 9273472, 9184625, 9371684, 8933766, 9068101,
       12124771, 10403016, 11331339, 10061988, 11920367, 10502144, 8777105, 9980445, 10071253, 10749910,
       8706493, 9374796, 9304306, 9122803, 9081874, 9016584, 11239584, 10006441, 9603771, 9321899,
       11068379, 10333694, 10604120, 10889588, 12303638, 10752104, 8520556, 9776861, 11259233, 10239786,
       11146440, 10870400, 9026622, 9161973, 11007133, 10336473, 10336144, 10963026, 9772524, 9740047,
       9176065, 9513029, 9280891, 9548551, 12049812, 10095785, 10000682, 10818957, 10782130, 10001531,
       9209101, 9618333, 9220148, 9053779, 11081984, 10809249, 8650424, 9788449, 9584787, 9232095,
       10034027, 10411072, 10111372, 10601840, 9820907, 9714984, 10395819, 10781095, 10692855, 10755817,
       10734637, 10545459, 9014197, 9191333, 9715845, 9902072, 11194762, 10861876, 10894647, 10187573,
       8627141, 9548519, 10351479, 10900352, 8021775, 9750626, 10046934, 10902060, 11897767, 10016745,
       9052108, 9282732, 9165677, 9954509, 10764029, 10781572, 8457199, 9484791, 9367245, 9970115,
       10596441, 10137581, 9365715, 9152311, 9764031, 9012790, 10744185, 10710315, 10421546, 10083536,
       10266818, 10396295, 9660878, 9720730, 10370061, 10115268, 9876268, 9319901, 10457805, 10609925,
       9503068, 9974883, 9817432, 9025621, 9010043, 9207448, 9964993, 9389994, 9189000, 9136372,
       8885954, 9549839, 10258661, 10147855, 10212739, 10775857, 10782873, 10734948, 9568875, 9430425,
       10408052, 10846836, 10550797, 10572273, 10444773, 10807831, 9174347, 9317198, 10149363, 10482271,
       10364140, 10296054, 10007178, 10466907, 7913523, 9341629, 10160489, 10623973, 12212531, 10039397,
       9639961, 9731244, 9271923, 9902145, 10373348, 10559711, 10312378, 10210466, 11192735, 10165416,
       8742132, 9844092, 10731380, 10252574, 10590422, 10061251, 9857854, 9463060, 10338687, 10317921,
       11029457, 10481598, 10872315, 10380028, 8856981, 9687927, 10820158, 10186755, 9935312, 9394968,
       10072874, 10098015, 10073196, 10991001, 9849758, 9011202, 11191707, 10497107, 9916283, 9040151,
       8880454, 9871617, 9606471, 9144031, 10178694, 10716810, 11229214, 10784297, 10603094, 10684948,
       9149465, 9721253, 12485189, 10916678, 10264775, 10310977, 11275390, 10737999, 9848286, 9566423,
       10533359, 10244705, 10839468, 10504518, 11218194, 10711754, 11057368, 10305378, 10872197, 10000072,
       9684914, 9268806, 9428254, 9958044, 10332607, 10510324, 10933128, 10072341, 9777280, 9299224,
       11065171, 10965714, 11452616, 10745486, 9083680, 9080927, 9163080, 9296204, 9859625, 9941095,
       10307612, 10668189, 9475433, 9986233, 11352202, 10678867, 10424066, 10861518, 10039447, 10048240,
       8564091, 9476132, 8684185, 9183573, 10281009, 10250281, 7867405, 9373846, 11012637, 10409644,
       9841847, 9155628, 13243092, 10969594, 12307916, 10250616, 9818551, 9930753, 9893663, 9997469,
       10995581, 10514002, 11703172, 10609918, 8361971, 9942564, 8213625, 9534646, 9377966, 9194446,
       10582737, 10583173, 10496873, 10590507, 11069771, 10454983, 8800303, 9471635, 7683857, 9137032,
       10858014, 10195302, 9171804, 9727035, 7981513, 9135612, 10145063, 10745959, 10793175, 10688218,
       9877943, 9867879, 9542152, 9613818, 9840638, 9767855, 9629418, 9237600, 8651953, 9888060,
       9285320, 9323010, 10521279, 10905013, 10321678, 10541376, 10168059, 10805966, 9004852, 9518147,
       9818497, 9837865, 7822935, 9953558, 10178476, 10663885, 11428857, 10707813, 8525868, 9867958,
       9414073, 9326683, 10329106, 10778710, 11252842, 10634427, 9551776, 9383700, 9307750, 9670735,
       8031077, 9857584, 10103438, 10129308, 12042076, 10040143, 10277358, 10461964, 9977722, 9020817,
       10322082, 10310766, 9988908, 9996052, 9186986, 9627740, 10823279, 10915677, 10225761, 10523111,
       10017613, 10251933, 9024634, 9972722, 11303507, 10931934, 10664702, 10745333, 9447080, 9162633,
       11001824, 10853681, 9502430, 9161615, 9217997, 9507489, 9240297, 9882520, 8228932, 9446912,
       10471542, 10380418, 8168856, 9121662, 8771557, 9168735, 7924412, 9990922, 9913931, 9307210,
       9849680, 9539729, 9673304, 9786814, 8957423, 9305330, 8827767, 9246564, 10464369, 10863546,
       9449449, 9068292, 10316358, 10321536, 9114752, 9313876, 10181062, 10742771, 11303278, 10037316,
       10586165, 10800392, 9587587, 9181784, 10257198, 10970355, 9759335, 9825470, 10007880, 10184694,
       9674389, 9947852, 9835665, 9794115, 10212093, 10353074, 9006642, 9300419, 8984122, 9173011,
       8611458, 9446169, 8399729, 9895497, 8782718, 9307780, 10159462, 10506804, 9107213, 9484509,
       10513614, 10464231, 10034713, 10748752, 8031496, 9786562, 10654975, 10584221, 10810798, 10645591,
       9006138, 9325166, 10420191, 10542894, 9143502, 9762591, 10097670, 10376748, 8735502, 9593046,
       8206894, 9547466, 9617183, 9810388, 9876272, 9053726, 9602321, 9306386, 8815970, 9441778,
       9600101, 9937869, 10269294, 10752580, 9955107, 9969878, 10182501, 10030599, 9329885, 9799546,
       11171717, 10914716, 8823827, 9663446, 10487560, 10297086, 11181891, 10092959, 10480908, 10092748,
       9797476, 9772936, 9471703, 9953338, 11036087, 10651046, 8577026, 9074739, 9029876, 9739621,
       9602443, 9234509, 11237653, 10757511, 10379767, 10636040, 9031955, 9241490, 9689693, 9294616,
       9385677, 9855904, 9290212, 9007767, 10978889, 10558556, 8628257, 9870737, 11608780, 10855734,
       10828229, 10690184, 11090861, 10670603, 9537061, 9487975, 9850060, 9280921, 8566849, 9185476,
       9475338, 9592934, 10493654, 10847643, 11296063, 10061781, 8892844, 9183198, 9634495, 9063015,
       9848701, 9779768, 8604211, 9797808, 10591349, 10241758, 9276010, 9668258, 9804610, 9648823,
       9548051, 9628089, 9210662, 9494281, 9992956, 9014520, 9784391, 9421432, 9628143, 9117722,
       9271539, 9378320, 10319524, 10670782, 11653617, 10268492, 10139887, 10232839, 10996118, 10214911,
       8609779, 9074847, 10157761, 10439293, 8902632, 9681029, 8523076, 9072469, 9260629, 9592541,
       11191899, 10334413, 10950015, 10828669, 10243004, 10722054, 8467300, 9440111, 9803720, 9348613,
       10301700, 10008901, 10175536, 10229578, 8156207, 9416520, 9109683, 9151981, 9935923, 9235852,
       10536290, 10909517, 7803873, 9178901, 9837877, 9024521, 10143048, 10769878, 10849611, 10988516,
       10692857, 10584237, 10582571, 10318808, 9200060, 9493299, 8091998, 9862877, 9606948, 9242939,
       11001631, 10825208, 11393454, 10527524, 10710549, 10102297, 10429340, 10822801, 10379639, 10648385,
       9443882, 9253240, 9869940, 9706447, 11669069, 10525826, 9057442, 9994209, 11614778, 10790709,
       9677972, 9845508, 11325432, 10109095, 8593185, 9990503, 10585904, 10201164, 9263230, 9864053,
       8584733, 9808076, 10218534, 10042410, 11009471, 10788595, 9155059, 9561407, 8500985, 9039542,
       9908156, 9235666, 9912565, 9671223, 10548319, 10627554, 10949594, 10571364, 9940585, 9818728,
       11855503, 10314794, 10224234, 10744535, 9653574, 9493994, 8388433, 9640898, 9737341, 9479684,
       9663614, 9054589, 10960304, 10796281, 10462483, 10624066, 8820631, 9878368, 10172254, 10386411,
       10671531, 10171729, 11528031, 10359387, 10887503, 10967414, 10760846, 10654311, 10060085, 10994615,
       10388312, 10005423, 11249504, 10900706, 8667223, 9602521, 9650561, 9672784, 9227432, 9251244,
       10379153, 10118726, 11230222, 10175650, 9403026, 9713279, 7609696, 9632531, 9587780, 9254976,
       10913473, 10732017, 10537629, 10902949, 10428186, 10247810, 9720007, 9698126, 8720970, 9263781,
       10515294, 10321624, 9165719, 9189966, 12184096, 10733380, 10570507, 10208354, 9419352, 9697447,
       9388615, 9752612, 9907056, 9793387, 9760499, 9077979, 11116833, 10775529, 10186416, 10169744,
       9268369, 9261092, 11890440, 10685155, 10049308, 10331520, 10768839, 10675968, 9391774, 9492556,
       10363115, 10627744, 10311109, 10991143, 8110351, 9707904, 12015275, 10110460, 11290644, 10460922,
       9602805, 9683855, 8897731, 9259545, 10347561, 10613803, 10086697, 10699414, 10355668, 10948563,
       10191577, 10396194, 10506240, 10989305, 11447305, 10699391, 10568103, 10205128, 8950345, 9501091,
       11362562, 10852712, 11640614, 10563488, 13152056, 10734512, 8876506, 9966761, 10242882, 10013150,
       7917902, 9296812, 10553149, 10156379, 9451800, 9701834, 11923445, 10794824, 9225386, 9029982,
       8310817, 9962033, 9528737, 9259298, 8024513, 9228783, 10751099, 10454507, 7934917, 9953744,
       10028457, 10581183, 7922189, 9180144, 9679703, 9195464, 11643378, 10155804, 10360647, 10891435,
       10485017, 10987524, 10085403, 10030162, 10972461, 10390027, 10518010, 10431376, 10614186, 10244319,
       10236609, 10782707, 10483498, 10085106, 10429149, 10491958, 10074895, 10842001, 10106160, 10353547,
       10837472, 10519618, 10239819, 10952206, 10194958, 10271498, 10504911, 10451250, 10768747, 10131362,
       10061946, 10518578, 10576807, 10919638, 10119210, 10442840, 10036461, 10050825, 10052743, 10952162,
       10834164, 10108208, 10117972, 10483628, 10045151, 10364412, 10437899, 10887142, 10843993, 10471942,
       10262408, 10376489, 10421712, 10617525, 10039922, 10532563, 10449078, 10514134, 10577613, 10080637,
       10570907, 10053752, 10332426, 10692174, 10315533, 10180663, 10106623, 10618936, 10366798, 10320646,
       10099494, 10668872, 10766595, 10944712, 10966274, 10297748, 10970074, 10456666, 10865071, 10099375,
       10600792, 10149339, 10700865, 10697243, 10285205, 10802680, 10630770, 10420172, 10455649, 10549439,
       10482017, 10339776, 10757776, 10560375, 10281918, 10355597, 10318039, 10611694, 10924641, 10791128,
       10056224, 10294850, 10485634, 10298413, 10912800, 10800407, 10610363, 10007818, 10546407, 10074212,
       10249744, 10179229, 10343275, 10489064, 10852048, 10415804, 10559218, 10131768, 10514742, 10193756,
       10099579, 10713540, 10016028, 10156455, 10963685, 10188687, 10376986, 10167286, 10603213, 10062099,
       10079715, 10073187, 10683114, 10285723, 10932566, 10708705, 10575665, 10252997, 10126115, 10322375,
       10581721, 10527473, 10766347, 10213104, 10406416, 10536574, 10879837, 10747941, 10648682, 10953357,
       10899248, 10918289, 10623505, 10311247, 10131287, 10972004, 10309691, 10711105, 10201794, 10948252,
       10908826, 10497716, 10760400, 10067287, 10676398, 10368910, 10300966, 10319631, 10184044, 10772050,
       10756451, 10087988, 10474157, 10945879, 10225789, 10552150, 10616621, 10978165, 10040333, 10852138,
       10326170, 10254128, 10468556, 10994591, 10147958, 10334109, 10984654, 10477590, 10209097, 10364589,
       10130353, 10130043, 10203534, 10873886, 10769061, 10133159, 10425505, 10659271, 10565415, 10939752,
       10021009, 10156986, 10034431, 10308573, 10445825, 10549827, 10816655, 10243201, 10885238, 10878707,
       10086706, 10567595, 10538363, 10102101, 10913229, 10686279, 10387972, 10754397, 10829565, 10831428,
       10133695, 10654399, 10935394, 10489667, 10751423, 10317531, 10941334, 10392786, 10676617, 10233552,
       10363403, 10931999, 10938181, 10172524, 10275566, 10776309, 10332172, 10522061, 10700808, 10418001,
       10765316, 10299525, 10929403, 10483849, 10204802, 10409056, 10797998, 10035219, 10738546, 10053396,
       10063794, 10556253, 10387223, 10141210, 10282765, 10457060, 10304490, 10424354, 10982946, 10879554,
       10642777, 10413479, 10717676, 10157793, 10976617, 10637315, 10377201, 10782457, 10801840, 10168452,
       10434530, 10963304, 10869533, 10671814, 10180657, 10541311, 10947686, 10177064, 10218771, 10708410,
       10326220, 10506980, 10756192, 10234106, 10393755, 10141565, 10608211, 10376766, 10444573, 10501069,
       10742369, 10937089, 10228331, 10252368, 10058457, 10987236, 10299929, 10397473, 10474308, 10664868,
       10168020, 10052192, 10354797, 10289656, 10399983, 10018293, 10057391, 10843688, 10583307, 10248184,
       10884343, 10427971, 10151742, 10912953, 10597808, 10013401, 10664739, 10204910, 10419334, 10680419,
       10701097, 10587364, 10410731, 10543491, 10504637, 10287977, 10007353, 10044554, 10691720, 10114134,
       10661342, 10678944, 10038400, 10877326, 10368250, 10107395, 10979031, 10840791, 10420736, 10562568,
       10501945, 10405131, 10909930, 10158159, 10717261, 10875865, 10582070, 10131124, 10797804, 10681341,
       10864366, 10266455, 10456888, 10071737, 10475108, 10364931, 10386050, 10935651, 10966706, 10140018,
       10697166, 10254290, 10083223, 10066208, 10862959, 10623313, 10480559, 10940836, 10068753, 10906422,
       10549717, 10255163, 10417164, 10278975, 10877749, 10404862, 10203994, 10603609, 10826464, 10609492,
       10557688, 10691185, 10054610, 10303213, 10971845, 10301325, 10512615, 10244103, 10290876, 10854231,
       10469406, 10841989, 10857857, 10783517, 10304903, 10124385, 10192676, 10396486, 10129071, 10246930,
       10297859, 10398390, 10780048, 10087040, 10471626, 10365195, 10227481, 10603693, 10166184, 10999609,
       10332729, 10476510, 10939924, 10372885, 10343026, 10712590, 10988124, 10075954, 10485230, 10455765,
       10179163, 10918290, 10891140, 10091793, 10460355, 10373134, 10709671, 10343504, 10983711, 10583209,
       10050175, 10350319, 10096694, 10559787, 10720456, 10741462, 10281825, 10003295, 10184301, 10396950,
       10039361, 10879819, 10021846, 10711986, 10774485, 10603119, 10134433, 10427369, 10467720, 10615971,
       10605896, 10815179, 10428351, 10800568, 10027106, 10652336, 10783501, 10502587, 10010513, 10224541,
       10761889, 10894377, 10893304, 10493788, 10432839, 10921057, 10535542, 10473097, 10476983, 10392617,
       10389208, 10618623, 10887424, 10535370, 10893933, 10510669, 10335816, 10364641, 10615069, 10754014,
       10926907, 10562145, 10962058, 10498941, 10508959, 10040422, 10452824, 10805284, 10278694, 10315928,
       10958871, 10873190, 10142814, 10304472, 10579829, 10576047, 10282550, 10267518, 10279008, 10290347,
       10404968, 10587376, 10998792, 10935815, 10054966, 10306839, 10578541, 10818203, 10082572, 10158035,
       10154520, 10829990, 10439562, 10941772, 10510460, 10131346, 10258792, 10408364, 10316457, 10130874,
       10086967, 10020255, 10303219, 10783844, 10966558, 10439380, 10944707, 10381672, 10334878, 10290136,
       10570853, 10936278, 10909595, 10391110, 10006183, 10822640, 10810683, 10570337, 10948369, 10552788,
       10091325, 10734333, 10161447, 10686032, 10960746, 10302771, 10537540, 10143640, 10014196, 10634471,
       10257631, 10998763, 10449943, 10674268, 10692908, 10911024, 10733160, 10378136, 10995421, 10512925,
       10287511, 10199383, 10538220, 10101868, 10533323, 10547859, 10405645, 10259447, 10169161, 10893842,
       10977456, 10563183, 10853317, 10186666, 10498333, 10028294, 10603245, 10422684, 10227261, 10053559,
       10543787, 10070391, 10694970, 10133121, 10515167, 10028386, 10990285, 10170584, 10611341, 10656247,
       10370973, 10712592, 10772152, 10027615, 10170462, 10511581, 10384515, 10813706, 10346958, 10950377,
       10431807, 10095107, 10781779, 10825928, 10484173, 10032163, 10794014, 10450265, 10576488, 10903139,
       10342069, 10434657, 10809978, 10743683, 10238289, 10670553, 10224382, 10979799, 10504502, 10924054,
       10260849, 10245962, 10009087, 10034951, 10648297, 10527298, 10511093, 10821472, 10445517, 10814493,
       10966968, 10514618, 10571199, 10183962, 10863431, 10577789, 10139450, 10236205, 10569206, 10463129,
       10867979, 10626730, 10583105, 10757279, 10718014, 10178127, 10372043, 10567812, 10092449, 10517037,
       10457900, 10295127, 10394479, 10390838, 10867060, 10182378, 10243995, 10302352, 10966734, 10227535,
       10958138, 10119804, 10247631, 10643071, 10348051, 10955477, 10895555, 10740873, 10966622, 10220896,
       10443439, 10102836, 10320997, 10045640, 10526094, 10013251, 10687769, 10206365, 10273474, 10515374,
       10736473, 10174619, 10051657, 10357114, 10049294, 10492764, 10386287, 10705145, 10353473, 10192060,
       10315633, 10215367, 10491019, 10762668, 10320733, 10582311, 10192257, 10918468, 10309469, 10549088,
       10974904, 10272810, 10411113, 10416994, 10444712, 10776858, 10576544, 10989951, 10983340, 10768414,
       10241601, 10276435, 10681282, 10110532, 10715984, 10693541, 10607324, 10416793, 10088578, 10339636,
       10676872, 10275827, 10064094, 10711036, 10596142, 10649549, 10739581, 10177221, 10210969, 10890619,
       10841622, 10007542, 10030353, 10805533, 10843812, 10863658, 10460329, 10050642, 10217587, 10939931,
       10133778, 10144993, 10953307, 10167582, 10072665, 10587581, 10199093, 10419935, 10347822, 10347433,
       10620234, 10848961, 10544801, 10085276, 10125643, 10492412, 10289727, 10983738, 10238751, 10771086,
       10213542, 10854490, 10411144, 10336479, 10704031, 10452591, 10217452, 10932217, 10366678, 10879702,
       10390917, 10426841, 10976456, 10529435, 10954666, 10356879, 10800137, 10582752, 10241658, 10920819,
       10068037, 10314091, 10316904, 10137720, 10266794, 10549433, 10505925, 10800146, 10777727, 10910067,
       10858322, 10938878, 10844864, 10085410, 10359675, 10561223, 10687234, 10343460, 10312834, 10197524,
       10060905, 10543235, 10701565, 10265602, 10009827, 10552569, 10409182, 10587458, 10329379, 10269302,
       10693377, 10538518, 10766245, 10472760, 10304094, 10635971, 10811627, 10014444, 10293916, 10760504,
       10446326, 10359986, 10727018, 10527014, 10692920, 10229224, 10987368, 10472312, 10225161, 10024215,
       10662317, 10913539, 10609681, 10908275, 10915098, 10454490, 10156362, 10141644, 10751798, 10163586,
       10568268, 10616268, 10274665, 10869787, 10474434, 10914147, 10333776, 10597069, 10579313, 10402788,
       10889000, 10610814, 10569304, 10984412, 10631722, 10418326, 10518747, 10847114, 10051165, 10506445,
       10232858, 10556876, 10492001, 10729432, 10310235, 10283744, 10181763, 10597761, 10504132, 10841918,
       10322809, 10793447, 10258107, 10643173, 10463985, 10417440, 10133284, 10258082, 10927745, 10733075,
       10867702, 10097919, 10707620, 10585740, 10106213, 10827588, 10775877, 10254469, 10807957, 10328109,
       10767764, 10617714, 10113965, 10887119, 10643907, 10957067, 10834324, 10795749, 10577353, 10401219,
       10646407, 10375228, 10458363, 10479426, 10528707, 10319884, 10034376, 10858351, 10638963, 10021973,
       10081447, 10212891, 10435014, 10594340, 10292655, 10097667, 10545427, 10950211, 10133416, 10335523,
       10691643, 10401973, 10795011, 10536928, 10163354, 10449743, 10104313, 10087351, 10145515, 10482787,
       10877127, 10561898, 10528189, 10261756, 10467260, 10996007, 10106711, 10819102, 10649556, 10006756,
       10867999, 10591895, 10828185, 10869323, 10626054, 10708980, 10075278, 10716651, 10112397, 10027176,
       10049308, 10987109, 10257479, 10216492, 10135661, 10467160, 10260048, 10040252, 10385058, 10055718,
       10942982, 10784071, 10610376, 10059781, 10834973, 10785682, 10710351, 10500712, 10112503, 10130526,
       10735920, 10406373, 10275098, 10881559, 10639107, 10846994, 10340961, 10973642, 10997672, 10263264,
       10263551, 10479496, 10279130, 10470774, 10930672, 10255562, 10024644, 10404636, 10696688, 10987873,
       10725326, 10390735, 10836378, 10577410, 10974439, 10310638, 10975601, 10919156, 10065276, 10757566,
       10821839, 10322752, 10646309, 10933657, 10647342, 10134373, 10128349, 10926614, 10650187, 10166445,
       10982482, 10580601, 10911818, 10569539, 10439130, 10660804, 10039947, 10973286, 10362293, 10490000,
       10826390, 10311600, 10701499, 10101465, 10459343, 10655593, 10055101, 10535158, 10426894, 10727823,
       10469024, 10939717, 10928555, 10532894, 10641086, 10103582, 10311652, 10916654, 10525318, 10264450,
       10066055, 10307822, 10972568, 10235649, 10360059, 10901930, 10477867, 10354913, 10355283, 10974236,
       10682511, 10730116, 10662232, 10158329, 10715322, 10310529, 10268143, 10229611, 10315668, 10481164,
       10125251, 10231096, 10655509, 10971846, 10039797, 10127335, 10597682, 10335523, 10869695, 10884851,
       10890832, 10148289, 10449037, 10760369, 10459303, 10688213, 10076969, 10183008, 10670765, 10025443,
       10821259, 10420372, 10244655, 10054604, 10421300, 10881633, 10838839, 10336765, 10877120, 10467662,
       10243179, 10980264, 10550570, 10634541, 10192493, 10150635, 10101878, 10764139, 10911120, 10501391,
       10820507, 10504232, 10760034, 10901803, 10048766, 10318813, 10843728, 10792710, 10438044, 10075905,
       10342395, 10123295, 10546476, 10361025, 10091353, 10242723, 10756646, 10549352, 10582435, 10076888,
       10186590, 10096873, 10188232, 10199769, 10184248, 10651572, 10057002, 10387551, 10587798, 10449371,
       10840348, 10177588, 10017498, 10213987, 10049004, 10644971, 10572770, 10276686, 10819495, 10685386,
       10326738, 10890568, 10349614, 10398807, 10596346, 10497496, 10274212, 10889124, 10026608, 10366077,
       10735228, 10518101, 10625649, 10912941, 10580755, 10999055, 10741684, 10128991, 10675230, 10837562,
       10205881, 10988178, 10352481, 10046943, 10126110, 10141678, 10129857, 10013417, 10676195, 10746356,
       10858600, 10106982, 10962732, 10583861, 10628347, 10117549, 10184101, 10323360, 10105650, 10345448,
       10812850, 10971536, 10578756, 10476359, 10618285, 10021013, 10781462, 10088754, 10703277, 10227732,
       10834458, 10252856, 10056213, 10905459, 10747520, 10636746, 10850852, 10757322, 10286135, 10042458,
       10640447, 10273993, 10314162, 10063836, 10957971, 10066482, 10033423, 10572435, 10579792, 10843832,
       10166503, 10547049, 10712220, 10205177, 10175890, 10283418, 10235383, 10261898, 10494370, 10811045,
       10914834, 10949996, 10211714, 10372147, 10144240, 10021118, 10758976, 10831854, 10500619, 10532333,
       10911785, 10112381, 10146614, 10557159, 10645927, 10893023, 10232879, 10146151, 10156760, 10428651,
       10683429, 10415157, 10593684, 10619908, 10754827, 10458362, 10309462, 10576446, 10447971, 10656382,
       10405471, 10676330, 10984089, 10463966, 10292248, 10956739, 10294817, 10238346, 10354548, 10208828,
       10564594, 10081290, 10252322, 10744263, 10915289, 10940379, 10265685, 10564866, 10895815, 10731560,
       10103475, 10063646, 10656562, 10702399, 10906985, 10518438, 10168749, 10438398, 10968326, 10960099,
       10452883, 10360415, 10945715, 10108441, 10676820, 10043630, 10301586, 10869873, 10188302, 10524917,
       10303735, 10046225, 10093017, 10409262, 10143867, 10966343, 10104660, 10440346, 10422943, 10543741,
       10795578, 10376257, 10141383, 10554216, 10130320, 10433172, 10643428, 10949517, 10197182, 10981968,
       10097610, 10038108, 10166848, 10578205, 10923731, 10395876, 10821471, 10252776, 10354064, 10562355,
       10655820, 10767327, 10537275, 10673668, 10677124, 10263482, 10682671, 10152462, 10628734, 10015059,
       10266101, 10368537, 10039006, 10420762, 10455566, 10781990, 10890973, 10884690, 10569497, 10258518,
       10832391, 10041701, 10991624, 10342961, 10163616, 10204138, 10691777, 10639141, 10674293, 10573700,
       10979955, 10447358, 10985600, 10733952, 10686678, 10611724, 10243614, 10791982, 10798555, 10838130,
       10107029, 10134211, 10780699, 10304171, 10910196, 10124144, 10382833, 10394768, 10630635, 10294983,
       10430142, 10732096, 10437765, 10054988, 10310370, 10889108, 10762129, 10620450, 10936176, 10564166,
       10940750, 10859234, 10174781, 10284874, 10874743, 10649656, 10737431, 10441427, 10252837, 10400690,
       10067284, 10612921, 10267997, 10266884, 10912208, 10236781, 10633178, 10674895, 10721054, 10660897,
       10257152, 10351109, 10719388, 10155574, 10028121, 10506277, 10375321, 10345773, 10626753, 10348542,
       10146096, 10565541, 10823003, 10574446, 10235031, 10298811, 10652281, 10112818, 10405197, 10142575,
       10596043, 10595477, 10107450, 10552628, 10016912, 10799921, 10909564, 10427380, 10269630, 10008767,
       10819677, 10002780, 10999350, 10300472, 10211431, 10257998, 10265170, 10741183, 10662859, 10787634,
       10965448, 10634600, 10915814, 10348190, 10502875, 10520065, 10795110, 10282526, 10135745, 10853099,
       10977438, 10184204, 10964353, 10234035, 10163728, 10957879, 10299423, 10124803, 10100154, 10997506,
       10271717, 10598898, 10815955, 10789415, 10378315, 10607165, 10088396, 10967146, 10342225, 10524778,
       10981383, 10334241, 10629683, 10595259, 10416160, 10946406, 10166538, 10513497, 10986176, 10797283,
       10820849, 10009263, 10281477, 10302450, 10070068, 10695721, 10056625, 10557377, 10120378, 10149505,
       10580768, 10583614, 10928763, 10421205, 10496743, 10428005, 10842945, 10482456, 10445886, 10619859,
       10708583, 10545767, 10731872, 10737286, 10173963, 10705903, 10361216, 10058975, 10637302, 10156538,
       10070696, 10608184, 10361540, 10187762, 10534799, 10466281, 10996224, 10493044, 10474533, 10562622,
       10816056, 10757114, 10432067, 10285066, 10796390, 10722619, 10595414, 10801620, 10886595, 10441502,
       10410942, 10552350, 10604304, 10419821, 10630018, 10680618, 10417382, 10941800, 10144312, 10043687,
       10093559, 10406912, 10016671, 10550599, 10873534, 10264245, 10236474, 10912238, 10211506, 10749281,
       10736035, 10400426, 10320016, 10113087, 10506044, 10692411, 10162511, 10065297, 10959745, 10721461,
       10851581, 10400017, 10863789, 10622965, 10406773, 10748572, 10762361, 10213707, 10143876, 10155389,
       10008619, 10002591, 10019972, 10932578, 10586601, 10737404, 10455394, 10905247, 10518015, 10348908,
       10007463, 10140417, 10422686, 10619657, 10718068, 10161200, 10442693, 10701967, 10732219, 10206312,
       10233018, 10964396, 10813142, 10004481, 10588431, 10240453, 10210763, 10099429, 10236720, 10475853,
       10628030, 10464569, 10829939, 10593212, 10415627, 10782029, 10258300, 10429127, 10867011, 10606910,
       10669268, 10291750, 10448085, 10487283, 10487900, 10195279, 10204256, 10467936, 10626802, 10630064,
       10358742, 10510542, 10995645, 10176674, 10480183, 10515261, 10485885, 10606189, 10565851, 10787410,
       10916756, 10003118, 10800818, 10099859, 10451130, 10069797, 10718699, 10265972, 10586235, 10498780,
       10492367, 10048701, 10192315, 10772784, 10463936, 10263454, 10245818, 10587022, 10914842, 10149851,
       10335406, 10813496, 10952264, 10014533, 10533055, 10290094, 10631544, 10378676, 10542940, 10444489,
       10129380, 10616966, 10375821, 10219007, 10099146, 10112277, 10622954, 10044183, 10446874, 10195200,
       10777984, 10971570, 10220470, 10480999, 10164566, 10058429, 10406332, 10230963, 10926585, 10383218,
       10710421, 10815012, 10418923, 10624792, 10517272, 10169754, 10084213, 10011177, 10984575, 10896376,
       10666407, 10304694, 10285404, 10068463, 10585808, 10394215, 10109482, 10366068, 10965836, 10668807,
       10174784, 10987883, 10648030, 10318055, 10245454, 10462538, 10717561, 10382648, 10776821, 10367240,
       10673419, 10728911, 10614499, 10460255, 10892469, 10093952, 10078626, 10710989, 10330914, 10765780,
       10248287, 10479630, 10988013, 10962065, 10389389, 10779666, 10732612, 10699240, 10684725, 10163881,
       10212081, 10237477, 10238997, 10680211, 10281284, 10563553, 10411127, 10278259, 10234325, 10065650,
       10019651, 10482746, 10879393, 10056807, 10965609, 10831380, 10341570, 10387031, 10338506, 10879425,
       10007091, 10812774, 10680250, 10688330, 10825439, 10895748, 10146608, 10300360, 10159666, 10349367,
       10790083, 10249971, 10616290, 10748354, 10044860, 10557627, 10622546, 10990462, 10308917, 10722843,
       10368725, 10155470, 10769731, 10418296, 10810935, 10192672, 10400356, 10626839, 10947152, 10936006,
       10406462, 10717952, 10771836, 10035230, 10483877, 10264564, 10897532, 10326522, 10907761, 10243650,
       10087416, 10807871, 10936493, 10331310, 10825534, 10841520, 10791310, 10714312, 10200911, 10339685,
       10805119, 10208754, 10850132, 10734685, 10289150, 10334454, 10952260, 10078362, 10049860, 10146399,
       10149909, 10253247, 10537581, 10138051, 10575792, 10471122, 10645150, 10083300, 10016969, 10129315,
       10960366, 10774622, 10044588, 10092734, 10143061, 10952723, 10014014, 10517526, 10566858, 10433294,
       10932266, 10883920, 10665947, 10166080, 10822657, 10468480, 10013281, 10203458, 10542015, 10298479,
       10459562, 10977505, 10498967, 10944220, 10072213, 10185335, 10684435, 10361069, 10503220, 10414858,
       10765148, 10849861, 10485290, 10634061, 10149381, 10636226, 10648256, 10954077, 10172386, 10362105,
       10872394, 10563354, 10613116, 10239069, 10157203, 10883556, 10962338, 10057481, 10518365, 10463335,
       10072898, 10451871, 10626832, 10904415, 10253198, 10907012, 10803693, 10451877, 10817822, 10073566,
       10978947, 10355854, 10501869, 10531024, 10454956, 10879727, 10753475, 10605446, 10132470, 10656341,
       10546915, 10513793, 10546247, 10600130, 10089473, 10122810, 10417984, 10085506, 10853284, 10798567,
       10856153, 10621994, 10099237, 10664919, 10090720, 10882747, 10262695, 10477001, 10874766, 10062553,
       10128902, 10585073, 10719996, 10802627, 10101165, 10619613, 10623137, 10853747, 10356067, 10299119,
       10788913, 10962965, 10233690, 10448825, 10639201, 10829389, 10235682, 10534575, 10713660, 10283112,
       10873678, 10034560, 10126801, 10799126, 10866595, 10688595, 10593575, 10254414, 10127110, 10490867,
       10427541, 10855359, 10160860, 10293485, 10700347, 10888866, 10758868, 10134417, 10105796, 10520272,
       10506139, 10852694, 10814625, 10056025, 10936163, 10041550, 10513517, 10866741, 10950279, 10223611,
       10535688, 10970456, 10394190, 10494599, 10848203, 10128552, 10492982, 10710458, 10471902, 10510564,
       10490312, 10489409, 10846785, 10001869, 10831941, 10541688, 10403519, 10992440, 10333299, 10859870,
       10491928, 10024039, 10572772, 10509737, 10238337, 10210627, 10793955, 10084715, 10486482, 10765732,
       10334045, 10548419, 10106820, 10992963, 10238845, 10160403, 10949281, 10171755, 10305099, 10686819,
       11000000, 10000000, 14000000, 10000000, 14000000, 10000000, 10000000, 10000000, 12000000, 10000000,
       11000000, 10000000, 13000000, 10000000, 12000000, 10000000, 10000000, 10000000, 14000000, 10000000,
       11000000, 10000000, 12000000, 10000000, 13000000, 10000000, 10000000, 10000000, 10000000, 10000000,
       12000000, 10000000, 13000000, 10000000, 10000000, 10000000, 11000000, 10000000, 10000000, 10000000,
       13000000, 10000000, 14000000, 10000000, 14000000, 10000000, 12000000, 10000000, 13000000, 10000000,
       10000000, 10000000, 10000000, 10000000, 14000000, 10000000, 14000000, 10000000, 11000000, 10000000,
       14000000, 10000000, 11000000, 10000000, 10000000, 10000000, 11000000, 10000000, 11000000, 10000000,
       12000000, 10000000, 14000000, 10000000, 11000000, 10000000, 10000000, 10000000, 13000000, 10000000,
       11000000, 10000000, 14000000, 10000000, 12000000, 10000000, 10000000, 10000000, 12000000, 10000000,
       13000000, 10000000, 11000000, 10000000, 11000000, 10000000, 14000000, 10000000, 11000000, 10000000,
       10000000, 10000000, 13000000, 10000000, 12000000, 10000000, 13000000, 10000000, 11000000, 10000000,
       12000000, 10000000, 14000000, 10000000, 13000000, 10000000, 12000000, 10000000, 12000000, 10000000,
       12000000, 10000000, 10000000, 10000000, 13000000, 10000000, 12000000, 10000000, 13000000, 10000000,
       12000000, 10000000, 14000000, 10000000, 14000000, 10000000, 14000000, 10000000, 11000000, 10000000,
       12000000, 10000000, 11000000, 10000000, 13000000, 10000000, 11000000, 10000000, 13000000, 10000000,
       13000000, 10000000, 13000000, 10000000, 11000000, 10000000, 12000000, 10000000, 11000000, 10000000,
       12000000, 10000000, 12000000, 10000000, 13000000, 10000000, 11000000, 10000000, 12000000, 10000000,
       14000000, 10000000, 12000000, 10000000, 14000000, 10000000, 11000000, 10000000, 11000000, 10000000,
       11000000, 10000000, 12000000, 10000000, 10000000, 10000000, 12000000, 10000000, 12000000, 10000000,
       13000000, 10000000, 13000000, 10000000, 12000000, 10000000, 14000000, 10000000, 13000000, 10000000,
       12000000, 10000000, 10000000, 10000000, 14000000, 10000000, 11000000, 10000000, 12000000, 10000000,
       12000000, 10000000, 14000000, 10000000, 13000000, 10000000, 13000000, 10000000, 13000000, 10000000,
       11000000, 10000000, 14000000, 10000000, 14000000, 10000000, 13000000, 10000000, 13000000, 10000000,
       10000000, 10000000, 10000000, 10000000, 12000000, 10000000, 12000000, 10000000, 14000000, 10000000,
       14000000, 10000000, 11000000, 10000000, 11000000, 10000000, 10000000, 10000000, 12000000, 10000000,
       10000000, 10000000, 10000000, 10000000, 12000000, 10000000, 11000000, 10000000, 12000000, 10000000,
       13000000, 10000000, 13000000, 10000000, 13000000, 10000000, 14000000, 10000000, 11000000, 10000000,
       11000000, 10000000, 14000000, 10000000, 10000000, 10000000, 13000000, 10000000, 13000000, 10000000,
       10000000, 10000000, 12000000, 10000000, 12000000, 10000000, 11000000, 10000000, 14000000, 10000000,
       11000000, 10000000, 12000000, 10000000, 10000000, 10000000, 11000000, 10000000, 13000000, 10000000,
       13000000, 10000000, 10000000, 10000000, 12000000, 10000000, 13000000, 10000000, 13000000, 10000000,
       14000000, 10000000, 11000000, 10000000, 12000000, 10000000, 11000000, 10000000, 12000000, 10000000,
       13000000, 10000000, 14000000, 10000000, 11000000, 10000000, 13000000, 10000000, 12000000, 10000000,
       11000000, 10000000, 11000000, 10000000, 13000000, 10000000, 11000000, 10000000, 14000000, 10000000,
       14000000, 10000000, 13000000, 10000000, 12000000, 10000000, 13000000, 10000000, 14000000, 10000000,
       10000000, 10000000, 10000000, 10000000, 11000000, 10000000, 11000000, 10000000, 10000000, 10000000,
       14000000, 10000000, 11000000, 10000000, 13000000, 10000000, 13000000, 10000000, 14000000, 10000000,
       11000000, 10000000, 13000000, 10000000, 11000000, 10000000, 11000000, 10000000, 13000000, 10000000,
       10000000, 10000000, 13000000, 10000000, 14000000, 10000000, 12000000, 10000000, 13000000, 10000000,
       11000000, 10000000, 11000000, 10000000, 13000000, 10000000, 12000000, 10000000, 13000000, 10000000,
       12000000, 10000000, 12000000, 10000000, 14000000, 10000000, 11000000, 10000000, 11000000, 10000000,
       12000000, 10000000, 11000000, 10000000, 10000000, 10000000, 12000000, 10000000, 11000000, 10000000,
       10000000, 10000000, 14000000, 10000000, 11000000, 10000000, 10000000, 10000000, 13000000, 10000000,
       13000000, 10000000, 10000000, 10000000, 12000000, 10000000, 12000000, 10000000, 11000000, 10000000,
       13000000, 10000000, 12000000, 10000000, 12000000, 10000000, 13000000, 10000000, 14000000, 10000000,
       12000000, 10000000, 10000000, 10000000, 11000000, 10000000, 12000000, 10000000, 12000000, 10000000,
       14000000, 10000000, 10000000, 10000000, 11000000, 10000000, 12000000, 10000000, 11000000, 10000000,
       13000000, 10000000, 12000000, 10000000, 12000000, 10000000, 13000000, 10000000, 14000000, 10000000,
       12000000, 10000000, 11000000, 10000000, 10000000, 10000000, 11000000, 10000000, 14000000, 10000000,
       10000000, 10000000, 11000000, 10000000, 11000000, 10000000, 13000000, 10000000, 14000000, 10000000,
       13000000, 10000000, 10000000, 10000000, 13000000, 10000000, 14000000, 10000000, 12000000, 10000000,
       12000000, 10000000, 10000000, 10000000, 12000000, 10000000, 13000000, 10000000, 10000000, 10000000,
       14000000, 10000000, 10000000, 10000000, 10000000, 10000000, 11000000, 10000000, 11000000, 10000000,
       10000000, 10000000, 12000000, 10000000, 11000000, 10000000, 14000000, 10000000, 13000000, 10000000,
       11000000, 10000000, 10000000, 10000000, 12000000, 10000000, 13000000, 10000000, 11000000, 10000000,
       12000000, 10000000, 12000000, 10000000, 12000000, 10000000, 10000000, 10000000, 14000000, 10000000,
       12000000, 10000000, 13000000, 10000000, 11000000, 10000000, 13000000, 10000000, 10000000, 10000000,
       10000000, 10000000, 13000000, 10000000, 14000000, 10000000, 10000000, 10000000, 10000000, 10000000,
       13000000, 10000000, 10000000, 10000000, 14000000, 10000000, 14000000, 10000000, 14000000, 10000000,
       11000000, 10000000, 14000000, 10000000, 14000000, 10000000, 11000000, 10000000, 12000000, 10000000,
       10000000, 10000000, 14000000, 10000000, 10000000, 10000000, 13000000, 10000000, 10000000, 10000000,
       11000000, 10000000, 10000000, 10000000, 10000000, 10000000, 10000000, 10000000, 12000000, 10000000,
       12000000, 10000000, 13000000, 10000000, 11000000, 10000000, 10000000, 10000000, 10000000, 10000000,
       10000000, 10000000, 10000000, 10000000, 12000000, 10000000, 13000000, 10000000, 14000000, 10000000,
       11000000, 10000000, 10000000, 10000000, 13000000, 10000000, 14000000, 10000000, 13000000, 10000000,
       12000000, 10000000, 14000000, 10000000, 13000000, 10000000, 12000000, 10000000, 13000000, 10000000,
       13000000, 10000000, 14000000, 10000000, 12000000, 10000000, 10000000, 10000000, 11000000, 10000000,
       14000000, 10000000, 12000000, 10000000, 13000000, 10000000, 12000000, 10000000, 11000000, 10000000,
       11000000, 10000000, 10000000, 10000000, 10000000, 10000000, 11000000, 10000000, 14000000, 10000000,
       14000000, 10000000, 13000000, 10000000, 10000000, 10000000, 13000000, 10000000, 10000000, 10000000,
       11000000, 10000000, 14000000, 10000000, 14000000, 10000000, 11000000, 10000000, 13000000, 10000000,
       13000000, 10000000, 12000000, 10000000, 10000000, 10000000, 13000000, 10000000, 11000000, 10000000,
       13000000, 10000000, 14000000, 10000000, 10000000, 10000000, 12000000, 10000000, 10000000, 10000000,
       14000000, 10000000, 14000000, 10000000, 14000000, 10000000, 14000000, 10000000, 11000000, 10000000,
       12000000, 10000000, 14000000, 10000000, 14000000, 10000000, 13000000, 10000000, 12000000, 10000000,
       10000000, 10000000, 12000000, 10000000, 12000000, 10000000, 12000000, 10000000, 14000000, 10000000,
       14000000, 10000000, 11000000, 10000000, 10000000, 10000000, 13000000, 10000000, 12000000, 10000000,
       10000000, 10000000, 10000000, 10000000, 11000000, 10000000, 13000000, 10000000, 12000000, 10000000,
       13000000, 10000000, 11000000, 10000000, 14000000, 10000000, 10000000, 10000000, 12000000, 10000000,
       14000000, 10000000, 11000000, 10000000, 13000000, 10000000, 10000000, 10000000, 12000000, 10000000,
       14000000, 10000000, 14000000, 10000000, 10000000, 10000000, 13000000, 10000000, 11000000, 10000000,
       13000000, 10000000, 13000000, 10000000, 13000000, 10000000, 10000000, 10000000, 10000000, 10000000,
       11000000, 10000000, 13000000, 10000000, 10000000, 10000000, 11000000, 10000000, 11000000, 10000000,
       13000000, 10000000, 12000000, 10000000, 13000000, 10000000, 12000000, 10000000, 11000000, 10000000,
       10000000, 10000000, 14000000, 10000000, 11000000, 10000000, 10000000, 10000000, 11000000, 10000000,
       13000000, 10000000, 12000000, 10000000, 11000000, 10000000, 10000000, 10000000, 13000000, 10000000,
       14000000, 10000000, 13000000, 10000000, 12000000, 10000000, 13000000, 10000000, 14000000, 10000000,
       10000000, 10000000, 11000000, 10000000, 12000000, 10000000, 14000000, 10000000, 12000000, 10000000,
       13000000, 10000000, 12000000, 10000000, 14000000, 10000000, 11000000, 10000000, 11000000, 10000000,
       12000000, 10000000, 10000000, 10000000, 12000000, 10000000, 13000000, 10000000, 11000000, 10000000,
       11000000, 10000000, 11000000, 10000000, 10000000, 10000000, 10000000, 10000000, 14000000, 10000000,
       12000000, 10000000, 12000000, 10000000, 13000000, 10000000, 11000000, 10000000, 10000000, 10000000,
       13000000, 10000000, 13000000, 10000000, 10000000, 10000000, 12000000, 10000000, 11000000, 10000000,
       12000000, 10000000, 13000000, 10000000, 11000000, 10000000, 14000000, 10000000, 13000000, 10000000,
       12000000, 10000000, 12000000, 10000000, 12000000, 10000000, 10000000, 10000000, 13000000, 10000000,
       11000000, 10000000, 12000000, 10000000, 12000000, 10000000, 10000000, 10000000, 11000000, 10000000,
       13000000, 10000000, 14000000, 10000000, 10000000, 10000000, 13000000, 10000000, 14000000, 10000000,
       12000000, 10000000, 12000000, 10000000, 11000000, 10000000, 14000000, 10000000, 12000000, 10000000,
       12000000, 10000000, 11000000, 10000000, 13000000, 10000000, 12000000, 10000000, 10000000, 10000000,
       10000000, 10000000, 13000000, 10000000, 14000000, 10000000, 11000000, 10000000, 10000000, 10000000,
       10000000, 10000000, 13000000, 10000000, 14000000, 10000000, 14000000, 10000000, 13000000, 10000000,
       10000000, 10000000, 11000000, 10000000, 10000000, 10000000, 14000000, 10000000, 10000000, 10000000,
       11000000, 10000000, 12000000, 10000000, 10000000, 10000000, 13000000, 10000000, 12000000, 10000000,
       13000000, 10000000, 13000000, 10000000, 13000000, 10000000, 10000000, 10000000, 14000000, 10000000,
       12000000, 10000000, 11000000, 10000000, 14000000, 10000000, 10000000, 10000000, 13000000, 10000000,
       11000000, 10000000, 12000000, 10000000, 14000000, 10000000, 14000000, 10000000, 11000000, 10000000,
       10000000, 10000000, 12000000, 10000000, 11000000, 10000000, 13000000, 10000000, 12000000, 10000000,
       14000000, 10000000, 11000000, 10000000, 14000000, 10000000, 14000000, 10000000, 14000000, 10000000,
       10000000, 10000000, 14000000, 10000000, 13000000, 10000000, 13000000, 10000000, 12000000, 10000000,
       14000000, 10000000, 14000000, 10000000, 11000000, 10000000, 10000000, 10000000, 12000000, 10000000,
       14000000, 10000000, 11000000, 10000000, 10000000, 10000000, 12000000, 10000000, 12000000, 10000000,
       14000000, 10000000, 12000000, 10000000, 11000000, 10000000, 12000000, 10000000, 13000000, 10000000,
       11000000, 10000000, 10000000, 10000000, 10000000, 10000000, 14000000, 10000000, 14000000, 10000000,
       13000000, 10000000, 10000000, 10000000, 10000000, 10000000, 10000000, 10000000, 10000000, 10000000,
       12000000, 10000000, 11000000, 10000000, 11000000, 10000000, 13000000, 10000000, 12000000, 10000000,
       10000000, 10000000, 10000000, 10000000, 14000000, 10000000, 14000000, 10000000, 13000000, 10000000,
       10000000, 10000000, 13000000, 10000000, 12000000, 10000000, 11000000, 10000000, 10000000, 10000000,
       12000000, 10000000, 10000000, 10000000, 14000000, 10000000, 13000000, 10000000, 14000000, 10000000,
       11000000, 10000000, 14000000, 10000000, 10000000, 10000000, 14000000, 10000000, 10000000, 10000000,
       11000000, 10000000, 14000000, 10000000, 13000000, 10000000, 13000000, 10000000, 13000000, 10000000,
       14000000, 10000000, 14000000, 10000000, 14000000, 10000000, 10000000, 10000000, 11000000, 10000000,
       13000000, 10000000, 10000000, 10000000, 13000000, 10000000, 10000000, 10000000, 14000000, 10000000,
       13000000, 10000000, 14000000, 10000000, 13000000, 10000000, 12000000, 10000000, 10000000, 10000000,
       12000000, 10000000, 10000000, 10000000, 11000000, 10000000, 13000000, 10000000, 11000000, 10000000,
       11000000, 10000000, 10000000, 10000000, 12000000, 10000000, 14000000, 10000000, 10000000, 10000000,
       14000000, 10000000, 11000000, 10000000, 14000000, 10000000, 12000000, 10000000, 10000000, 10000000,
       12000000, 10000000, 12000000, 10000000, 10000000, 10000000, 12000000, 10000000, 13000000, 10000000,
       13000000, 10000000, 13000000, 10000000, 14000000, 10000000, 12000000, 10000000, 10000000, 10000000,
       10000000, 10000000, 14000000, 10000000, 10000000, 10000000, 13000000, 10000000, 12000000, 10000000,
       10000000, 10000000, 10000000, 10000000, 11000000, 10000000, 11000000, 10000000, 11000000, 10000000,
       12000000, 10000000, 13000000, 10000000, 13000000, 10000000, 13000000, 10000000, 12000000, 10000000,
       12000000, 10000000, 11000000, 10000000, 10000000, 10000000, 14000000, 10000000, 14000000, 10000000,
       10000000, 10000000, 11000000, 10000000, 10000000, 10000000, 10000000, 10000000, 14000000, 10000000,
       11000000, 10000000, 12000000, 10000000, 14000000, 10000000, 12000000, 10000000, 11000000, 10000000,
       10000000, 10000000, 13000000, 10000000, 13000000, 10000000, 11000000, 10000000, 13000000, 10000000,
       12000000, 10000000, 13000000, 10000000, 11000000, 10000000, 11000000, 10000000, 12000000, 10000000,
       13000000, 10000000, 13000000, 10000000, 10000000, 10000000, 14000000, 10000000, 11000000, 10000000,
       10000000, 10000000, 11000000, 10000000, 10000000, 10000000, 14000000, 10000000, 10000000, 10000000,
       11000000, 10000000, 13000000, 10000000, 11000000, 10000000, 12000000, 10000000, 12000000, 10000000,
       12000000, 10000000, 12000000, 10000000, 14000000, 10000000, 13000000, 10000000, 13000000, 10000000,
       11000000, 10000000, 10000000, 10000000, 11000000, 10000000, 11000000, 10000000, 11000000, 10000000,
       11000000, 10000000, 13000000, 10000000, 10000000, 10000000, 11000000, 10000000, 13000000, 10000000,
       11000000, 10000000, 12000000, 10000000, 11000000, 10000000, 11000000, 10000000, 14000000, 10000000,
       12000000, 10000000, 10000000, 10000000, 11000000, 10000000, 10000000, 10000000, 12000000, 10000000,
       11000000, 10000000, 14000000, 10000000, 13000000, 10000000, 14000000, 10000000, 14000000, 10000000,
       13000000, 10000000, 13000000, 10000000, 13000000, 10000000, 11000000, 10000000, 10000000, 10000000,
       10000000, 10000000, 13000000, 10000000, 14000000, 10000000, 12000000, 10000000, 13000000, 10000000,
       14000000, 10000000, 14000000, 10000000, 11000000, 10000000, 11000000, 10000000, 10000000, 10000000,
       10000000, 10000000, 12000000, 10000000, 12000000, 10000000, 12000000, 10000000, 12000000, 10000000,
       14000000, 10000000, 14000000, 10000000, 10000000, 10000000, 11000000, 10000000, 11000000, 10000000,
       13000000, 10000000, 14000000, 10000000, 12000000, 10000000, 12000000, 10000000, 13000000, 10000000,
       11000000, 10000000, 12000000, 10000000, 11000000, 10000000, 13000000, 10000000, 11000000, 10000000,
       11000000, 10000000, 11000000, 10000000, 12000000, 10000000, 10000000, 10000000, 14000000, 10000000,
       11000000, 10000000, 11000000, 10000000, 11000000, 10000000, 10000000, 10000000, 13000000, 10000000,
       12000000, 10000000, 10000000, 10000000, 11000000, 10000000, 10000000, 10000000, 10000000, 10000000,
       10000000, 10000000, 13000000, 10000000, 14000000, 10000000, 12000000, 10000000, 13000000, 10000000,
       13000000, 10000000, 14000000, 10000000, 13000000, 10000000, 10000000, 10000000, 10000000, 10000000,
       11000000, 10000000, 13000000, 10000000, 11000000, 10000000, 12000000, 10000000, 10000000, 10000000,
       12000000, 10000000, 14000000, 10000000, 10000000, 10000000, 12000000, 10000000, 14000000, 10000000,
       12000000, 10000000, 14000000, 10000000, 14000000, 10000000, 10000000, 10000000, 11000000, 10000000,
       14000000, 10000000, 14000000, 10000000, 10000000, 10000000, 11000000, 10000000, 13000000, 10000000,
       13000000, 10000000, 11000000, 10000000, 12000000, 10000000, 10000000, 10000000, 11000000, 10000000,
       13000000, 10000000, 14000000, 10000000, 13000000, 10000000, 14000000, 10000000, 10000000, 10000000,
       14000000, 10000000, 11000000, 10000000, 14000000, 10000000, 12000000, 10000000, 11000000, 10000000,
       10000000, 10000000, 11000000, 10000000, 12000000, 10000000, 10000000, 10000000, 13000000, 10000000,
       12000000, 10000000, 10000000, 10000000, 14000000, 10000000, 11000000, 10000000, 10000000, 10000000,
       11000000, 10000000, 14000000, 10000000, 10000000, 10000000, 13000000, 10000000, 12000000, 10000000,
       10000000, 10000000, 14000000, 10000000, 10000000, 10000000, 11000000, 10000000, 10000000, 10000000,
       13000000, 10000000, 10000000, 10000000, 12000000, 10000000, 10000000, 10000000, 11000000, 10000000,
       10000000, 10000000, 13000000, 10000000, 14000000, 10000000, 10000000, 10000000, 10000000, 10000000,
       12000000, 10000000, 13000000, 10000000, 14000000, 10000000, 11000000, 10000000, 10000000, 10000000,
       14000000, 10000000, 11000000, 10000000, 13000000, 10000000, 13000000, 10000000, 14000000, 10000000,
       11000000, 10000000, 13000000, 10000000, 14000000, 10000000, 13000000, 10000000, 13000000, 10000000,
       13000000, 10000000, 12000000, 10000000, 11000000, 10000000, 14000000, 10000000, 14000000, 10000000,
       11000000, 10000000, 11000000, 10000000, 11000000, 10000000, 11000000, 10000000, 10000000, 10000000,
       14000000, 10000000, 10000000, 10000000, 13000000, 10000000, 13000000, 10000000, 14000000, 10000000,
       13000000, 10000000, 11000000, 10000000, 10000000, 10000000, 11000000, 10000000, 13000000, 10000000,
       10000000, 10000000, 11000000, 10000000, 14000000, 10000000, 11000000, 10000000, 13000000, 10000000,
       10000000, 10000000, 14000000, 10000000, 10000000, 10000000, 14000000, 10000000, 10000000, 10000000,
       13000000, 10000000, 14000000, 10000000, 12000000, 10000000, 10000000, 10000000, 10000000, 10000000,
       11000000, 10000000, 14000000, 10000000, 12000000, 10000000, 13000000, 10000000, 11000000, 10000000,
       12000000, 10000000, 14000000, 10000000, 12000000, 10000000, 10000000, 10000000, 10000000, 10000000,
       11000000, 10000000, 14000000, 10000000, 14000000, 10000000, 12000000, 10000000, 11000000, 10000000,
       14000000, 10000000, 10000000, 10000000, 12000000, 10000000, 13000000, 10000000, 10000000, 10000000,
       11000000, 10000000, 14000000, 10000000, 10000000, 10000000, 13000000, 10000000, 13000000, 10000000,
       11000000, 10000000, 10000000, 10000000, 12000000, 10000000, 10000000, 10000000, 13000000, 10000000,
       11000000, 10000000, 11000000, 10000000, 12000000, 10000000, 11000000, 10000000, 11000000, 10000000,
       11000000, 10000000, 11000000, 10000000, 11000000, 10000000, 13000000, 10000000, 10000000, 10000000,
       14000000, 10000000, 11000000, 10000000, 14000000, 10000000, 14000000, 10000000, 13000000, 10000000,
       11000000, 10000000, 14000000, 10000000, 11000000, 10000000, 12000000, 10000000, 12000000, 10000000,
       12000000, 10000000, 14000000, 10000000, 12000000, 10000000, 13000000, 10000000, 13000000, 10000000,
       14000000, 10000000, 11000000, 10000000, 10000000, 10000000, 11000000, 10000000, 11000000, 10000000,
       11000000, 10000000, 11000000, 10000000, 10000000, 10000000, 12000000, 10000000, 11000000, 10000000,
       13000000, 10000000, 14000000, 10000000, 14000000, 10000000, 13000000, 10000000, 11000000, 10000000,
       10000000, 10000000, 12000000, 10000000, 14000000, 10000000, 12000000, 10000000, 10000000, 10000000,
       14000000, 10000000, 12000000, 10000000, 10000000, 10000000, 12000000, 10000000, 11000000, 10000000,
       10000000, 10000000, 12000000, 10000000, 11000000, 10000000, 11000000, 10000000, 10000000, 10000000,
       13000000, 10000000, 14000000, 10000000, 10000000, 10000000, 11000000, 10000000, 11000000, 10000000,
       10000000, 10000000, 13000000, 10000000, 14000000, 10000000, 12000000, 10000000, 10000000, 10000000,
       14000000, 10000000, 14000000, 10000000, 11000000, 10000000, 12000000, 10000000, 10000000, 10000000,
       8667455, 9226221, 9909389, 9439769, 11885476, 10721266, 9867306, 9778473, 10066762, 10125354,
       9204553, 9764134, 9938382, 9955208, 11229050, 10306347, 10142909, 10387638, 12131770, 10082062,
       11259479, 10712305, 9913684, 9654556, 9894213, 9124408, 11630923, 10137623, 10137325, 10575855,
       11408921, 10560271, 12002907, 10340126, 9795781, 9632176, 10351955, 10365935, 10980004, 10184566,
       10767500, 10039022, 10760490, 10732920, 8666527, 9172823, 9151584, 9271839, 9504733, 9979059,
       11214420, 10803468, 8764626, 9092874, 11523226, 10707178, 10779834, 10114078, 11154230, 10224722,
       9070467, 9922756, 10072302, 10362690, 10298942, 10786131, 10254967, 10002022, 10295657, 10400846,
       9723474, 9519605, 10135207, 10081063, 11033563, 10955065, 8833488, 9691560, 11547050, 10118905,
       10981898, 10956368, 9034799, 9107317, 10383836, 10043455, 10901498, 10776158, 8764707, 9676115,
       10041978, 10433376, 9921485, 9699165, 9354420, 9457494, 10092356, 10836764, 9399714, 9424038,
       11374307, 10068970, 9373356, 9678673, 10791978, 10940013, 8344614, 9612380, 9838191, 9196151,
       10012311, 10157351, 9805709, 9949385, 9603682, 9702805, 9332485, 9974655, 10754540, 10780014,
       10999457, 10855095, 9917840, 9114144, 8903363, 9491979, 11793949, 10331386, 9120203, 9567093,
       8540578, 9741517, 7987379, 9083481, 10099451, 10896912, 9782584, 9614485, 11030956, 10649146,
       10611084, 10563445, 10290201, 10224585, 9728633, 9804538, 11109977, 10272197, 11867389, 10901752,
       11008979, 10199129, 9536469, 9369151, 10781565, 10553882, 9597911, 9274533, 8894933, 9684141,
       9100961, 9937879, 9641822, 9595863, 10103959, 10678963, 12060581, 10152575, 9118311, 9524389,
       11323488, 10489691, 9682741, 9448308, 7983616, 9012555, 9494274, 9997070, 11176696, 10993167,
       10344669, 10519329, 10404451, 10198663, 11328504, 10008844, 8963664, 9711065, 8948250, 9569908,
       7736272, 9390704, 10877082, 10071242, 10562484, 10233629, 10723966, 10519591, 8816989, 9775944,
       8395752, 9044081, 8680382, 9691567, 9077428, 9727642, 11553958, 10908912, 11000126, 10723782,
       9541780, 9359380, 10299251, 10993259, 9321638, 9753853, 10364279, 10760781, 8861905, 9262259,
       10750251, 10445973, 9150297, 9702416, 10805915, 10028543, 9572578, 9091806, 9209925, 9046402,
       11612996, 10717249, 10176946, 10184893, 9677819, 9628952, 10758178, 10308351, 8660009, 9930426,
       11106863, 10589260, 9860556, 9293592, 10600787, 10715668, 8452127, 9538977, 9617575, 9041868,
       10004580, 10139345, 11030299, 10213618, 10680411, 10063937, 9607523, 9962383, 10317947, 10757323,
       11256569, 10101726, 9800012, 9516578, 9691136, 9039565, 8110296, 9357248, 9720928, 9664658,
       8260373, 9961316, 9885666, 9320967, 10988135, 10143242, 7880361, 9524954, 11234208, 10824620,
       9669777, 9873344, 9972836, 9132874, 9497581, 9219862, 8286764, 9117452, 9217011, 9825704,
       12097410, 10068449, 8903955, 9503747, 8411458, 9638275, 10141291, 10027407, 9914224, 9484828,
       9676671, 9209205, 10014447, 10943352, 10644202, 10610696, 9412837, 9400215, 10194410, 10208282,
       11023874, 10662130, 9004712, 9333246, 7677819, 9656062, 10670808, 10492095, 12502962, 10575602,
       9992646, 9346352, 10201932, 10201065, 9704192, 9566907, 11588060, 10841510, 9922244, 9067056,
       9813436, 9839986, 10910863, 10814269, 9515728, 9037804, 8715307, 9298925, 10882300, 10379545,
       9408453, 9792328, 9024540, 9972324, 12100048, 10158573, 9821404, 9196778, 10494226, 10082297,
       10029528, 10241007, 9113681, 9509630, 10689433, 10620021, 10314578, 10983786, 9340621, 9168361,
       10433190, 10337856, 9485690, 9905870, 8895505, 9639892, 8794333, 9745648, 10270058, 10620962,
       9617270, 9070072, 11501704, 10019043, 9957042, 9886663, 9214797, 9706547, 10157817, 10638643,
       8705733, 9678426, 9915869, 9759476, 10319166, 10776478, 10195672, 10307635, 11302799, 10930519,
       12597517, 10125844, 10671397, 10371341, 11178796, 10327785, 12543462, 10659657, 8993775, 9152184,
       10130627, 10408775, 9522004, 9467914, 10842657, 10710261, 10271618, 10919476, 9181568, 9680097,
       10010947, 10816347, 11046922, 10739655, 8696276, 9368975, 9202656, 9444362, 9052725, 9914959,
       10326396, 10555486, 11240516, 10079614, 7990266, 9534694, 10094398, 10563478, 9075780, 9282725,
       11005402, 10774829, 9763032, 9724429, 10130673, 10939077, 9998664, 9004798, 11124218, 10803189,
       12048631, 10530797, 8865335, 9670119, 9047444, 9882006, 10321497, 10902554, 9183598, 9651699,
       10933583, 10770400, 11094117, 10459084, 9453424, 9687754, 9236463, 9733359, 9725221, 9978348,
       10104018, 10213963, 10314837, 10189895, 7747183, 9940951, 9032545, 9481150, 9595901, 9651130,
       9203011, 9668254, 7135291, 9107648, 8111628, 9534646, 8694642, 9474416, 9884716, 9799147,
       9563798, 9806519, 9368431, 9917472, 10796514, 10960792, 10796133, 10664923, 10149918, 10653481,
       10120120, 10282718, 9143340, 9449067, 9263008, 9669344, 8292351, 9616875, 9749249, 9568222,
       10785741, 10289711, 11354329, 10896774, 9755221, 9142095, 10491668, 10832009, 7144011, 9757139,
       9567072, 9679602, 9543638, 9619867, 11491168, 10314225, 10392933, 10460921, 10494255, 10422880,
       10442328, 10310998, 10045442, 10732332, 11532365, 10330849, 7694721, 9452035, 10146210, 10408715,
       11129802, 10851639, 8108607, 9546808, 10837917, 10853772, 9238837, 9758735, 10109815, 10928842,
       9219641, 9619055, 10959151, 10676549, 9711639, 9118777, 10845796, 10856357, 10435329, 10836264,
       9206208, 9515942, 10501859, 10190395, 9336431, 9941988, 10064128, 10093839, 9693406, 9638511,
       10899911, 10866388, 10540322, 10270737, 9969279, 9451396, 9314289, 9222845, 8731009, 9510170,
       10135656, 10419290, 9367710, 9106849, 8122004, 9842427, 8669972, 9459004, 11625875, 10305541,
       9340024, 9615011, 11082162, 10777510, 9643351, 9272802, 11239577, 10635160, 11167164, 10017474,
       9174305, 9573100, 8012025, 9333193, 8096680, 9522970, 9191339, 9496045, 11889634, 10425557,
       9589438, 9925078, 10145243, 10950073, 11303336, 10866203, 10110321, 10363111, 10075891, 10038520,
       10622663, 10193945, 10288969, 10755509, 9900533, 9894997, 9278551, 9656803, 10078488, 10890865,
       11094399, 10797083, 11782004, 10586998, 10292276, 10641568, 10755161, 10135095, 10269730, 10707162,
       9912671, 9635597, 10514257, 10078612, 11189332, 10834312, 9113639, 9163981, 8548604, 9297688,
       9466992, 9750364, 10211661, 10943299, 10869871, 10617621, 9010493, 9175145, 7511424, 9477376,
       9490552, 9343329, 9806086, 9774342, 8837727, 9516589, 9243910, 9071183, 10867283, 10410086,
       10078120, 10069596, 10345622, 10118609, 9644318, 9768390, 9245890, 9589042, 9637102, 9770576,
       10498880, 10194179, 8508680, 9788659, 11650170, 10259832, 10574858, 10495682, 9464120, 9895710,
       10813407, 10117886, 11222349, 10067073, 9669662, 9950398, 9783416, 9210235, 11493474, 10213473,
       12118975, 10146918, 10029435, 10657568, 8841786, 9652912, 9529398, 9845076, 11033015, 10744469,
       8969785, 9703987, 9791717, 9800241, 10292584, 10881431, 9077286, 9313593, 11096434, 10561876,
       10693967, 10515204, 12009545, 10909525, 10781460, 10895857, 9039111, 9364434, 10530369, 10060909,
       10988021, 10673515, 11039478, 10814125, 9223158, 9852110, 9103663, 9297645, 8860363, 9880891,
       11604731, 10994138, 10622878, 10823842, 9178782, 9375792, 10127188, 10938757, 9876313, 9686599,
       9027419, 9531035, 10036183, 10943956, 10190695, 10287720, 11931253, 10094651, 9344313, 9474234,
       8290601, 9675805, 8951047, 9264645, 9107353, 9576568, 9573073, 9823968, 8953497, 9270873,
       10822122, 10005818, 8883968, 9236991, 10020017, 10968299, 12000192, 10183522, 10553568, 10271763,
       10450757, 10011712, 11857316, 10200745, 11245649, 10564236, 10565124, 10367352, 9689274, 9150056,
       9977312, 9125211, 9928697, 9132334, 9598575, 9452428, 10212036, 10511882, 10350747, 10697047,
       8755372, 9532842, 11632042, 10499962, 10409797, 10513073, 9737218, 9038050, 10221175, 10978729,
       10930368, 10891158, 8533314, 9587415, 9894940, 9273520, 8814145, 9225138, 12657003, 10820975,
       10138186, 10047768, 8822255, 9352401, 13599466, 10780697, 9463982, 9421220, 9790921, 9081924,
       9863202, 9760015, 9152047, 9943431, 10247352, 10017496, 7789260, 9833640, 11085898, 10382877,
       8872196, 9129263, 9584679, 9477690, 10751519, 10673686, 9795539, 9981694, 9836453, 9252903,
       8987923, 9557271, 12095648, 10217470, 10531482, 10382206, 8917216, 9051731, 10178182, 10446057,
       8846533, 9005349, 11722414, 10293989, 10199637, 10960708, 9024454, 9472093, 10697590, 10735623,
       9721925, 9327952, 8711772, 9344478, 10381046, 10333900, 10352841, 10834137, 11137733, 10632567,
       10064503, 10556917, 10107060, 10286958, 10160133, 10036545, 11595282, 10994507, 9689927, 9476726,
       10469454, 10968805, 10616745, 10452015, 10349776, 10519230, 9652096, 9393941, 10120604, 10007307,
       9906343, 9238568, 11959210, 10360111, 9542237, 9214569, 9087422, 9473748, 9993799, 9308567,
       9923302, 9802572, 10196843, 10520168, 9542554, 9397799, 10110373, 10479932, 10129607, 10038971,
       10905989, 10689360, 10093006, 10383709, 10102475, 10030631, 10516346, 10379708, 10867655, 10063181,
       9016325, 9212374, 8747680, 9440134, 11695479, 10629383, 10704075, 10437928, 9780614, 9363671,
       10019701, 10936633, 9607439, 9306671, 10211280, 10724441, 9028163, 9810596, 10840166, 10985089,
       10175453, 10398628, 10211627, 10096033, 9106058, 9617322, 10524267, 10096772, 9129029, 9356854,
       9307850, 9140092, 10087621, 10923441, 12507331, 10899615, 10171466, 10133354, 7431200, 9120333,
       9357499, 9616640, 10683729, 10112220, 8871540, 9055016, 10831102, 10441145, 10158820, 10574765,
       10991327, 10192590, 9441146, 9890750, 9363217, 9085068, 10564985, 10158284, 9992472, 9625028,
       9931978, 9188214, 11568969, 10868949, 10604140, 10927061, 8010078, 9033305, 10799068, 10122516,
       10698968, 10800415, 11184911, 10287223, 9060302, 9580427, 10324805, 10825210, 10111630, 10021243,
       9042369, 9152521, 10946766, 10567906, 9758455, 9000691, 11152732, 10391252, 9257142, 9214933,
       8539415, 9529201, 9757434, 9817969, 10231913, 10182562, 9465805, 9072782, 6935544, 9131242,
       10383649, 10144918, 10378980, 10690522, 10687167, 10278540, 9619508, 9564450, 9564949, 9267619,
       11440321, 10772801, 8424596, 9314179, 9752883, 9206333, 10142301, 10846131, 10606021, 10830014,
       10169767, 10182404, 9078008, 9361539, 11167613, 10948020, 10001907, 10412276, 8331998, 9293509,
       10209176, 10650773, 10475276, 10871221, 11960743, 10953398, 10408751, 10348870, 8517975, 9427985,
       8553099, 9709192, 11258709, 10458198, 9197197, 9986651, 8450419, 9935855, 11000510, 10867758,
       9524265, 9187786, 10947013, 10964159, 9085281, 9494671, 11473812, 10333665, 10872063, 10706933,
       9277315, 9633399, 8339610, 9533106, 12305163, 10858754, 9789793, 9298007, 9237269, 9352925,
       11386308, 10268829, 10945759, 10853412, 11182796, 10543312, 9901492, 9722483, 11881054, 10690323,
       8689382, 9819449, 9447951, 9478443, 10389878, 10755714, 11168111, 10344237, 10661159, 10020524,
       9917135, 9264154, 9524853, 9132761, 11173510, 10858359, 10764396, 10013277, 9125477, 9207309,
       9095731, 9601937, 9454512, 9845561, 9326239, 9134381, 11029840, 10912546, 10435732, 10322218,
       10557787, 10240403, 10191669, 10636796, 10238770, 10715337, 8418183, 9584660, 10794183, 10657684,
       9436519, 9519409, 9966845, 9666951, 9526828, 9077865, 10145871, 10565151, 10573093, 10927243,
       8991145, 9967477, 10252749, 10224244, 9550998, 9421247, 11321458, 10775876, 8885375, 9597021,
       8997484, 9730436, 9640430, 9781964, 9074357, 9284987, 9775619, 9987014, 9472115, 9493885,
       10088412, 10377701, 11008072, 10027824, 10071279, 10605684, 10162354, 10560816, 8942678, 9397188,
       9865941, 9446185, 9578246, 9528391, 10681640, 10963640, 9235434, 9016798, 9139345, 9407489,
       10317429, 10197147, 11980103, 10054372, 9824052, 9376026, 10168208, 10406230, 10948021, 10848354,
       10509903, 10898615, 10516479, 10480382, 9904808, 9548082, 9924265, 9817222, 9244852, 9462274,
       10486373, 10254301, 10463554, 10429998, 10717164, 10527693, 9511896, 9529447, 10830134, 10399378,
       11133334, 10788147, 8786042, 9881724, 9703128, 9420643, 11175023, 10581960, 9350445, 9300148,
       10528762, 10527183, 10008576, 10002002, 10330879, 10321423, 10039056, 10302692, 10746170, 10984564,
       8978483, 9864137, 9086677, 9755878, 11464513, 10550266, 12100363, 10279985, 9994581, 9561374,
       11715266, 10042151, 9228226, 9352987, 9468415, 9116515, 11457487, 10511745, 10804106, 10528623,
       11606427, 10097932, 10468555, 10769059, 8987454, 9923486, 10223577, 10357502, 11202002, 10538468,
       9867265, 9797354, 9713567, 9481495, 10483853, 10402964, 9440494, 9734455, 10295500, 10483113,
       10063501, 10464671, 9509586, 9539252, 10980737, 10231867, 10645987, 10938950, 9646330, 9415714,
       9985039, 9735060, 9728725, 9400153, 9361353, 9360758, 8301731, 9327593, 9516173, 9255644,
       9375973, 9501685, 10114890, 10707835, 10440698, 10801528, 9197816, 9330198, 10373497, 10361727,
       9043755, 9217134, 9874708, 9484362, 9397581, 9899340, 10746173, 10638079, 10116773, 10099994,
       9889833, 9074169, 9374751, 9239886, 9671159, 9691624, 11829060, 10812326, 9498916, 9879278,
       10479406, 10917596, 9887354, 9683113, 10450825, 10314574, 10836975, 10872693, 9646022, 9506679,
       10709773, 10426445, 12756639, 10477005, 10567539, 10994191, 11613581, 10464599, 10481046, 10000106,
       9068039, 9377803, 10275693, 10997252, 9669617, 9203791, 9404060, 9302683, 9927415, 9789598,
       9845250, 9921272, 8940076, 9094208, 12708461, 10584719, 10807870, 10914472, 10244390, 10245842,
       10089880, 10111250, 11202348, 10619621, 12075570, 10362309, 10685085, 10372012, 10121192, 10704784,
       11472644, 10071977, 10142359, 10242935, 10435314, 10809625, 11001010, 10920031, 9613521, 9862126,
       7924166, 9602595, 9564920, 9774670, 10773000, 10929379, 10702550, 10897718, 11342670, 10109412,
       9603169, 9966131, 11580925, 10242946, 10185067, 10830451, 10604413, 10162563, 10903612, 10758294,
       8618335, 9373107, 8995103, 9807374, 8961910, 9482933, 11072217, 10184848, 9694544, 9388261,
       12027581, 10973324, 10003375, 10974892, 8528627, 9151919, 9327583, 9489295, 10117376, 10363219,
       10515189, 10864193, 9015163, 9271918, 10568480, 10771806, 10835542, 10757045, 9359053, 9400445,
       11969157, 10212059, 9467341, 9976650, 9000122, 9925785, 8470778, 9485274, 11220640, 10698692,
       10022882, 10877345, 9520715, 9010536, 8525862, 9564569, 9610750, 9076434, 12381445, 10387676,
       7855513, 9496239, 9368342, 9598968, 11792783, 10970042, 11248973, 10047069, 9429375, 9331719,
       10203595, 10096935, 10462937, 10404694, 10133838, 10581807, 11784450, 10209609, 10339754, 10205457,
       11135516, 10290963, 10181598, 10769095, 7967612, 9187274, 8807588, 9246644, 9015123, 9150694,
       9750715, 9142724, 12078414, 10239014, 10362411, 10462875, 9894212, 9897936, 11238557, 10996155,
       8548117, 9324499, 9510305, 9829852, 9362672, 9346060, 10398041, 10559468, 10895836, 10292353,
       10471485, 10552027, 10487316, 10483218, 9638891, 9880783, 10320759, 10858116, 9160163, 9129220,
       10674138, 10935007, 9499397, 9995337, 8878491, 9439700, 10037819, 10435832, 8086884, 9835656,
       11474370, 10071996, 10797098, 10996911, 10336969, 10850247, 8376316, 9254606, 9299810, 9816927,
       10040558, 10434871, 9736896, 9228975, 8311436, 9034553, 8683571, 9994464, 9716906, 9603087,
       8716711, 9601417, 11371387, 10323883, 10494538, 10359405, 9196536, 9890761, 11169154, 10828015,
       10967706, 10588673, 10288958, 10356386, 9960414, 9766537, 9701527, 9191771, 9460062, 9292219,
       8663209, 9080793, 11528328, 10755097, 9479487, 9781229, 10028200, 10609712, 9089753, 9143700,
       9740550, 9483391, 12850777, 10423869, 9274003, 9096255, 11448595, 10774541, 9972195, 9482847,
       10679938, 10463494, 11244580, 10255396, 10272267, 10384405, 9648293, 9843620, 9813910, 9021718,
       9847572, 9518354, 11864370, 10556915, 8515875, 9222840, 8229274, 9042208, 8295948, 9082803,
       9106069, 9566428, 10700083, 10077198, 10761419, 10292404, 9392498, 9358594, 9971509, 9472341,
       8883702, 9364913, 8976448, 9712594, 10579866, 10839011, 11047684, 10061108, 9523182, 9175570,
       11635015, 10120830, 10965605, 10348786, 11591725, 10852255, 9699062, 9930906, 11520686, 10245632,
       12179542, 10639975, 9587483, 9466644, 9845831, 9961632, 9052282, 9497594, 8855785, 9903840,
       8867449, 9658734, 9188534, 9868213, 10274737, 10978985, 9230801, 9460579, 10244162, 10554586,
       10264845, 10151194, 9529876, 9606126, 9937363, 9895431, 9472088, 9607314, 9689261, 9226724,
       9191138, 9025536, 10084104, 10689782, 9399455, 9134541, 8833935, 9124063, 10593428, 10888848,
       10627291, 10201285, 11111698, 10535644, 8975603, 9625396, 9519073, 9693290, 10230495, 10405089,
       9497961, 9123188, 10570911, 10983807, 10497932, 10887483, 10479295, 10356191, 11459667, 10233304,
       10644077, 10074458, 10153891, 10111481, 9806465, 9513404, 9876136, 9891824, 8935790, 9846160,
       8234290, 9813050, 10463756, 10127731, 11223632, 10937563, 9669886, 9076698, 11587094, 10159032,
       9823488, 9566919, 8046229, 9018887, 10918249, 10253729, 9520712, 9762762, 11008778, 10677520,
       8722473, 9516069, 10412044, 10162147, 9199539, 9916456, 10201404, 10866562, 10766606, 10694575,
       10534401, 10001293, 10069367, 10833030, 8621541, 9893788, 10730344, 10180551, 11031430, 10437995,
       8957003, 9975844, 9103971, 9785695, 11073557, 10358032, 9791559, 9437431, 9129887, 9662595,
       10272554, 10413519, 9361476, 9612046, 10161042, 10131405, 9586794, 9329154, 9672490, 9179920,
       11110397, 10383857, 7531476, 9319875, 10554750, 10754435, 10945450, 10778266, 9378006, 9858823,
       10937765, 10354363, 9040977, 9033160, 9340017, 9454337, 9224833, 9956409, 10951292, 10163602,
       8255053, 9313333, 11640147, 10226025, 9695062, 9433887, 10614912, 10154157, 10528707, 10921363,
       10151231, 10788206, 9399314, 9938523, 11242372, 10562927, 9485149, 9734279, 9268752, 9342280,
       10877710, 10283523, 10145749, 10619536, 11357821, 10575116, 9937333, 9908545, 9349125, 9627305,
       10274743, 10473023, 9552383, 9843913, 9378078, 9488695, 10831888, 10193655, 11831555, 10067275,
       9753539, 9208082, 9025259, 9813715, 9846544, 9650101, 10514801, 10229895, 10257479, 10528477,
       11194231, 10694471, 10665089, 10838275, 8896591, 9531891, 9506682, 9649360, 8619166, 9880025,
       11144679, 10345630, 8008113, 9734729, 8716668, 9669378, 9488198, 9533995, 10563917, 10403104,
       9478347, 9586295, 9634771, 9586286, 9654473, 9126728, 10172782, 10622358, 8779489, 9464730,
       9052823, 9951952, 11680923, 10698795, 10402399, 10097197, 10760782, 10171852, 10058028, 10531455,
       9859720, 9751758, 10457130, 10946095, 10727613, 10683676, 10846075, 10674691, 9873441, 9440181,
       10955376, 10556278, 7533784, 9211171, 10892287, 10009725, 9573095, 9043257, 10553382, 10446301,
       9350673, 9274305, 8673306, 9469923, 10339704, 10031316, 8498470, 9476679, 9600323, 9571778,
       9187571, 9308896, 9824968, 9461707, 10797209, 10119597, 9510155, 9714546, 10314577, 10547412,
       10739346, 10038227, 9392745, 9949207, 9407247, 9471281, 11369328, 10902200, 9920612, 9360223,
       10509138, 10793131, 10501561, 10092359, 8802013, 9393923, 9239125, 9123829, 10375347, 10363540,
       7932686, 9113277, 9788703, 9382962, 9134717, 9127608, 11110506, 10141976, 10346115, 10453154,
       11191246, 10297390, 9960876, 9366447, 9886111, 9807233, 9695071, 9480921, 9496931, 9600445,
       12684656, 10339055, 10807169, 10515793, 8933812, 9454064, 12639308, 10869162, 9595021, 9064998,
       10321152, 10000176, 10939597, 10371871, 8462047, 9072928, 9172674, 9198351, 11648164, 10824570,
       9775172, 9336664, 10998670, 10116760, 9546532, 9559354, 9904941, 9394514, 11785256, 10866076,
       10437512, 10242298, 9655153, 9233070, 9316637, 9539198, 9408125, 9607587, 11241560, 10030737,
       12000000, 10000000, 12000000, 10000000, 11000000, 10000000, 14000000, 10000000, 13000000, 10000000,
       12000000, 10000000, 12000000, 10000000, 13000000, 10000000, 12000000, 10000000, 11000000, 10000000,
       11000000, 10000000, 13000000, 10000000, 12000000, 10000000, 12000000, 10000000, 14000000, 10000000,
       12000000, 10000000, 11000000, 10000000, 10000000, 10000000, 10000000, 10000000, 10000000, 10000000,
       10000000, 10000000, 12000000, 10000000, 12000000, 10000000, 14000000, 10000000, 12000000, 10000000,
       10000000, 10000000, 13000000, 10000000, 13000000, 10000000, 11000000, 10000000, 11000000, 10000000,
       12000000, 10000000, 13000000, 10000000, 10000000, 10000000, 10000000, 10000000, 10000000, 10000000,
       12000000, 10000000, 12000000, 10000000, 14000000, 10000000, 10000000, 10000000, 10000000, 10000000,
       12000000, 10000000, 12000000, 10000000, 14000000, 10000000, 14000000, 10000000, 11000000, 10000000,
       13000000, 10000000, 10000000, 10000000, 10000000, 10000000, 14000000, 10000000, 14000000, 10000000,
       11000000, 10000000, 13000000, 10000000, 11000000, 10000000, 13000000, 10000000, 10000000, 10000000,
       11000000, 10000000, 14000000, 10000000, 11000000, 10000000, 11000000, 10000000, 10000000, 10000000,
       14000000, 10000000, 14000000, 10000000, 12000000, 10000000, 12000000, 10000000, 12000000, 10000000,
       10000000, 10000000, 11000000, 10000000, 14000000, 10000000, 14000000, 10000000, 11000000, 10000000,
       14000000, 10000000, 11000000, 10000000, 10000000, 10000000, 10000000, 10000000, 10000000, 10000000,
       11000000, 10000000, 11000000, 10000000, 13000000, 10000000, 14000000, 10000000, 14000000, 10000000,
       13000000, 10000000, 13000000, 10000000, 10000000, 10000000, 13000000, 10000000, 11000000, 10000000,
       12000000, 10000000, 11000000, 10000000, 13000000, 10000000, 14000000, 10000000, 11000000, 10000000,
       14000000, 10000000, 11000000, 10000000, 14000000, 10000000, 11000000, 10000000, 14000000, 10000000,
       12000000, 10000000, 10000000, 10000000, 11000000, 10000000, 12000000, 10000000, 10000000, 10000000,
       11000000, 10000000, 12000000, 10000000, 12000000, 10000000, 12000000, 10000000, 13000000, 10000000,
       14000000, 10000000, 10000000, 10000000, 14000000, 10000000, 14000000, 10000000, 14000000, 10000000,
       12000000, 10000000, 14000000, 10000000, 13000000, 10000000, 11000000, 10000000, 12000000, 10000000,
       10000000, 10000000, 11000000, 10000000, 11000000, 10000000, 11000000, 10000000, 14000000, 10000000,
       14000000, 10000000, 12000000, 10000000, 14000000, 10000000, 14000000, 10000000, 14000000, 10000000,
       12000000, 10000000, 12000000, 10000000, 13000000, 10000000, 13000000, 10000000, 13000000, 10000000,
       13000000, 10000000, 11000000, 10000000, 11000000, 10000000, 13000000, 10000000, 13000000, 10000000,
       10000000, 10000000, 11000000, 10000000, 10000000, 10000000, 10000000, 10000000, 14000000, 10000000,
       12000000, 10000000, 11000000, 10000000, 13000000, 10000000, 13000000, 10000000, 12000000, 10000000,
       11000000, 10000000, 13000000, 10000000, 13000000, 10000000, 14000000, 10000000, 10000000, 10000000,
       13000000, 10000000, 11000000, 10000000, 12000000, 10000000, 14000000, 10000000, 11000000, 10000000,
       14000000, 10000000, 10000000, 10000000, 13000000, 10000000, 11000000, 10000000, 12000000, 10000000,
       10000000, 10000000, 10000000, 10000000, 14000000, 10000000, 10000000, 10000000, 11000000, 10000000,
       14000000, 10000000, 10000000, 10000000, 12000000, 10000000, 11000000, 10000000, 12000000, 10000000,
       12000000, 10000000, 14000000, 10000000, 13000000, 10000000, 14000000, 10000000, 11000000, 10000000,
       11000000, 10000000, 14000000, 10000000, 13000000, 10000000, 14000000, 10000000, 11000000, 10000000,
       13000000, 10000000, 11000000, 10000000, 13000000, 10000000, 13000000, 10000000, 14000000, 10000000,
       14000000, 10000000, 14000000, 10000000, 13000000, 10000000, 13000000, 10000000, 11000000, 10000000,
       12000000, 10000000, 14000000, 10000000, 11000000, 10000000, 11000000, 10000000, 10000000, 10000000,
       14000000, 10000000, 11000000, 10000000, 10000000, 10000000, 14000000, 10000000, 13000000, 10000000,
       10000000, 10000000, 13000000, 10000000, 12000000, 10000000, 12000000, 10000000, 12000000, 10000000,
       12000000, 10000000, 11000000, 10000000, 12000000, 10000000, 11000000, 10000000, 11000000, 10000000,
       14000000, 10000000, 11000000, 10000000, 11000000, 10000000, 12000000, 10000000, 11000000, 10000000,
       13000000, 10000000, 12000000, 10000000, 10000000, 10000000, 12000000, 10000000, 11000000, 10000000,
       13000000, 10000000, 12000000, 10000000, 13000000, 10000000, 10000000, 10000000, 10000000, 10000000,
       14000000, 10000000, 14000000, 10000000, 12000000, 10000000, 14000000, 10000000, 13000000, 10000000,
       14000000, 10000000, 13000000, 10000000, 14000000, 10000000, 14000000, 10000000, 14000000, 10000000,
       11000000, 10000000, 11000000, 10000000, 14000000, 10000000, 13000000, 10000000, 12000000, 10000000,
       10000000, 10000000, 11000000, 10000000, 14000000, 10000000, 10000000, 10000000, 11000000, 10000000,
       12000000, 10000000, 13000000, 10000000, 14000000, 10000000, 12000000, 10000000, 11000000, 10000000,
       14000000, 10000000, 10000000, 10000000, 13000000, 10000000, 11000000, 10000000, 13000000, 10000000,
       14000000, 10000000, 12000000, 10000000, 13000000, 10000000, 10000000, 10000000, 11000000, 10000000,
       10000000, 10000000, 13000000, 10000000, 12000000, 10000000, 12000000, 10000000, 10000000, 10000000,
       14000000, 10000000, 14000000, 10000000, 12000000, 10000000, 10000000, 10000000, 10000000, 10000000,
       10000000, 10000000, 13000000, 10000000, 14000000, 10000000, 14000000, 10000000, 13000000, 10000000,
       11000000, 10000000, 13000000, 10000000, 10000000, 10000000, 13000000, 10000000, 10000000, 10000000,
       12000000, 10000000, 10000000, 10000000, 14000000, 10000000, 13000000, 10000000, 10000000, 10000000,
       11000000, 10000000, 12000000, 10000000, 11000000, 10000000, 11000000, 10000000, 11000000, 10000000,
       12000000, 10000000, 12000000, 10000000, 12000000, 10000000, 12000000, 10000000, 11000000, 10000000,
       14000000, 10000000, 14000000, 10000000, 12000000, 10000000, 13000000, 10000000, 10000000, 10000000,
       13000000, 10000000, 13000000, 10000000, 13000000, 10000000, 14000000, 10000000, 10000000, 10000000,
       13000000, 10000000, 12000000, 10000000, 14000000, 10000000, 12000000, 10000000, 12000000, 10000000,
       13000000, 10000000, 12000000, 10000000, 10000000, 10000000, 12000000, 10000000, 13000000, 10000000,
       12000000, 10000000, 14000000, 10000000, 14000000, 10000000, 14000000, 10000000, 11000000, 10000000,
       14000000, 10000000, 14000000, 10000000, 11000000, 10000000, 14000000, 10000000, 13000000, 10000000,
       14000000, 10000000, 14000000, 10000000, 11000000, 10000000, 13000000, 10000000, 12000000, 10000000,
       10000000, 10000000, 13000000, 10000000, 12000000, 10000000, 13000000, 10000000, 12000000, 10000000,
       12000000, 10000000, 13000000, 10000000, 11000000, 10000000, 13000000, 10000000, 13000000, 10000000,
       12000000, 10000000, 10000000, 10000000, 12000000, 10000000, 14000000, 10000000, 13000000, 10000000,
       13000000, 10000000, 11000000, 10000000, 12000000, 10000000, 11000000, 10000000, 13000000, 10000000,
       12000000, 10000000, 12000000, 10000000, 14000000, 10000000, 14000000, 10000000, 10000000, 10000000,
       14000000, 10000000, 12000000, 10000000, 14000000, 10000000, 10000000, 10000000, 13000000, 10000000,
       14000000, 10000000, 12000000, 10000000, 13000000, 10000000, 12000000, 10000000, 13000000, 10000000,
       12000000, 10000000, 14000000, 10000000, 14000000, 10000000, 10000000, 10000000, 13000000, 10000000,
       10000000, 10000000, 11000000, 10000000, 14000000, 10000000, 13000000, 10000000, 10000000, 10000000,
       10000000, 10000000, 11000000, 10000000, 10000000, 10000000, 12000000, 10000000, 14000000, 10000000,
       10000000, 10000000, 10000000, 10000000, 11000000, 10000000, 12000000, 10000000, 10000000, 10000000,
       14000000, 10000000, 14000000, 10000000, 10000000, 10000000, 12000000, 10000000, 14000000, 10000000,
       14000000, 10000000, 12000000, 10000000, 12000000, 10000000, 10000000, 10000000, 13000000, 10000000,
       11000000, 10000000, 13000000, 10000000, 13000000, 10000000, 14000000, 10000000, 12000000, 10000000,
       14000000, 10000000, 11000000, 10000000, 10000000, 10000000, 11000000, 10000000, 14000000, 10000000,
       14000000, 10000000, 14000000, 10000000, 14000000, 10000000, 13000000, 10000000, 10000000, 10000000,
       13000000, 10000000, 14000000, 10000000, 12000000, 10000000, 13000000, 10000000, 14000000, 10000000,
       14000000, 10000000, 10000000, 10000000, 11000000, 10000000, 13000000, 10000000, 13000000, 10000000,
       13000000, 10000000, 14000000, 10000000, 10000000, 10000000, 14000000, 10000000, 14000000, 10000000,
       12000000, 10000000, 10000000, 10000000, 13000000, 10000000, 11000000, 10000000, 13000000, 10000000,
       14000000, 10000000, 10000000, 10000000, 10000000, 10000000, 10000000, 10000000, 12000000, 10000000,
       13000000, 10000000, 12000000, 10000000, 11000000, 10000000, 14000000, 10000000, 12000000, 10000000,
       12000000, 10000000, 14000000, 10000000, 10000000, 10000000, 14000000, 10000000, 13000000, 10000000,
       14000000, 10000000, 10000000, 10000000, 14000000, 10000000, 12000000, 10000000, 11000000, 10000000,
       12000000, 10000000, 11000000, 10000000, 14000000, 10000000, 13000000, 10000000, 14000000, 10000000,
       10000000, 10000000, 14000000, 10000000, 11000000, 10000000, 12000000, 10000000, 13000000, 10000000,
       14000000, 10000000, 14000000, 10000000, 12000000, 10000000, 13000000, 10000000, 14000000, 10000000,
       14000000, 10000000, 11000000, 10000000, 11000000, 10000000, 10000000, 10000000, 12000000, 10000000,
       13000000, 10000000, 14000000, 10000000, 14000000, 10000000, 10000000, 10000000, 14000000, 10000000,
       12000000, 10000000, 10000000, 10000000, 12000000, 10000000, 10000000, 10000000, 14000000, 10000000,
       10000000, 10000000, 11000000, 10000000, 13000000, 10000000, 14000000, 10000000, 13000000, 10000000,
       14000000, 10000000, 13000000, 10000000, 11000000, 10000000, 13000000, 10000000, 10000000, 10000000,
       13000000, 10000000, 14000000, 10000000, 12000000, 10000000, 13000000, 10000000, 13000000, 10000000,
       13000000, 10000000, 14000000, 10000000, 13000000, 10000000, 14000000, 10000000, 14000000, 10000000,
       12000000, 10000000, 10000000, 10000000, 14000000, 10000000, 11000000, 10000000, 13000000, 10000000,
       11000000, 10000000, 13000000, 10000000, 12000000, 10000000, 14000000, 10000000, 10000000, 10000000,
       14000000, 10000000, 13000000, 10000000, 10000000, 10000000, 14000000, 10000000, 10000000, 10000000,
       13000000, 10000000, 12000000, 10000000, 12000000, 10000000, 14000000, 10000000, 11000000, 10000000,
       13000000, 10000000, 14000000, 10000000, 14000000, 10000000, 12000000, 10000000, 10000000, 10000000,
       13000000, 10000000, 10000000, 10000000, 13000000, 10000000, 11000000, 10000000, 12000000, 10000000,
       11000000, 10000000, 14000000, 10000000, 12000000, 10000000, 14000000, 10000000, 11000000, 10000000,
       13000000, 10000000, 14000000, 10000000, 10000000, 10000000, 13000000, 10000000, 13000000, 10000000,
       11000000, 10000000, 11000000, 10000000, 12000000, 10000000, 12000000, 10000000, 10000000, 10000000,
       13000000, 10000000, 10000000, 10000000, 10000000, 10000000, 11000000, 10000000, 10000000, 10000000,
       10000000, 10000000, 14000000, 10000000, 12000000, 10000000, 12000000, 10000000, 13000000, 10000000,
       12000000, 10000000, 13000000, 10000000, 14000000, 10000000, 12000000, 10000000, 14000000, 10000000,
       12000000, 10000000, 12000000, 10000000, 14000000, 10000000, 10000000, 10000000, 10000000, 10000000,
       10000000, 10000000, 10000000, 10000000, 12000000, 10000000, 11000000, 10000000, 14000000, 10000000,
       11000000, 10000000, 11000000, 10000000, 13000000, 10000000, 10000000, 10000000, 12000000, 10000000,
       10000000, 10000000, 10000000, 10000000, 11000000, 10000000, 13000000, 10000000, 10000000, 10000000,
       14000000, 10000000, 14000000, 10000000, 10000000, 10000000, 11000000, 10000000, 11000000, 10000000,
       12000000, 10000000, 13000000, 10000000, 11000000, 10000000, 12000000, 10000000, 14000000, 10000000,
       14000000, 10000000, 14000000, 10000000, 10000000, 10000000, 13000000, 10000000, 12000000, 10000000,
       13000000, 10000000, 10000000, 10000000, 12000000, 10000000, 12000000, 10000000, 11000000, 10000000,
       13000000, 10000000, 13000000, 10000000, 11000000, 10000000, 14000000, 10000000, 10000000, 10000000,
       13000000, 10000000, 11000000, 10000000, 12000000, 10000000, 11000000, 10000000, 14000000, 10000000,
       10000000, 10000000, 14000000, 10000000, 12000000, 10000000, 12000000, 10000000, 12000000, 10000000,
       12000000, 10000000, 11000000, 10000000, 12000000, 10000000, 12000000, 10000000, 11000000, 10000000,
       12000000, 10000000, 14000000, 10000000, 14000000, 10000000, 13000000, 10000000, 14000000, 10000000,
       10000000, 10000000, 10000000, 10000000, 10000000, 10000000, 11000000, 10000000, 14000000, 10000000,
       10000000, 10000000, 13000000, 10000000, 11000000, 10000000, 13000000, 10000000, 14000000, 10000000,
       12000000, 10000000, 13000000, 10000000, 12000000, 10000000, 11000000, 10000000, 13000000, 10000000,
       13000000, 10000000, 11000000, 10000000, 11000000, 10000000, 10000000, 10000000, 14000000, 10000000,
       13000000, 10000000, 13000000, 10000000, 11000000, 10000000, 11000000, 10000000, 14000000, 10000000,
       11000000, 10000000, 12000000, 10000000, 12000000, 10000000, 12000000, 10000000, 12000000, 10000000,
       14000000, 10000000, 13000000, 10000000, 12000000, 10000000, 11000000, 10000000, 12000000, 10000000,
       14000000, 10000000, 11000000, 10000000, 12000000, 10000000, 13000000, 10000000, 11000000, 10000000,
       11000000, 10000000, 13000000, 10000000, 11000000, 10000000, 12000000, 10000000, 11000000, 10000000,
       12000000, 10000000, 13000000, 10000000, 10000000, 10000000, 13000000, 10000000, 12000000, 10000000,
       14000000, 10000000, 13000000, 10000000, 14000000, 10000000, 14000000, 10000000, 12000000, 10000000,
       12000000, 10000000, 10000000, 10000000, 11000000, 10000000, 13000000, 10000000, 12000000, 10000000,
       13000000, 10000000, 14000000, 10000000, 11000000, 10000000, 10000000, 10000000, 13000000, 10000000,
       11000000, 10000000, 10000000, 10000000, 13000000, 10000000, 11000000, 10000000, 12000000, 10000000,
       13000000, 10000000, 11000000, 10000000, 10000000, 10000000, 11000000, 10000000, 12000000, 10000000,
       13000000, 10000000, 13000000, 10000000, 13000000, 10000000, 12000000, 10000000, 10000000, 10000000,
       13000000, 10000000, 10000000, 10000000, 11000000, 10000000, 10000000, 10000000, 10000000, 10000000,
       13000000, 10000000, 14000000, 10000000, 14000000, 10000000, 12000000, 10000000, 12000000, 10000000,
       14000000, 10000000, 11000000, 10000000, 13000000, 10000000, 13000000, 10000000, 11000000, 10000000,
       11000000, 10000000, 14000000, 10000000, 12000000, 10000000, 11000000, 10000000, 12000000, 10000000,
       10000000, 10000000, 13000000, 10000000, 14000000, 10000000, 13000000, 10000000, 14000000, 10000000,
       10000000, 10000000, 13000000, 10000000, 10000000, 10000000, 14000000, 10000000, 11000000, 10000000,
       13000000, 10000000, 10000000, 10000000, 13000000, 10000000, 13000000, 10000000, 13000000, 10000000,
       12000000, 10000000, 10000000, 10000000, 10000000, 10000000, 13000000, 10000000, 11000000, 10000000,
       13000000, 10000000, 12000000, 10000000, 14000000, 10000000, 12000000, 10000000, 11000000, 10000000,
       13000000, 10000000, 10000000, 10000000, 13000000, 10000000, 11000000, 10000000, 10000000, 10000000,
       12000000, 10000000, 14000000, 10000000, 14000000, 10000000, 13000000, 10000000, 12000000, 10000000,
       11000000, 10000000, 14000000, 10000000, 12000000, 10000000, 13000000, 10000000, 10000000, 10000000,
       13000000, 10000000, 13000000, 10000000, 12000000, 10000000, 14000000, 10000000, 12000000, 10000000,
       10000000, 10000000, 12000000, 10000000, 11000000, 10000000, 13000000, 10000000, 14000000, 10000000,
       10000000, 10000000, 13000000, 10000000, 12000000, 10000000, 11000000, 10000000, 12000000, 10000000,
       13000000, 10000000, 10000000, 10000000, 14000000, 10000000, 13000000, 10000000, 10000000, 10000000,
       13000000, 10000000, 11000000, 10000000, 12000000, 10000000, 14000000, 10000000, 10000000, 10000000,
       14000000, 10000000, 14000000, 10000000, 14000000, 10000000, 10000000, 10000000, 10000000, 10000000,
       14000000, 10000000, 12000000, 10000000, 13000000, 10000000, 14000000, 10000000, 11000000, 10000000,
       14000000, 10000000, 10000000, 10000000, 13000000, 10000000, 11000000, 10000000, 13000000, 10000000,
       13000000, 10000000, 11000000, 10000000, 14000000, 10000000, 14000000, 10000000, 14000000, 10000000,
       12000000, 10000000, 14000000, 10000000, 11000000, 10000000, 12000000, 10000000, 14000000, 10000000,
       12000000, 10000000, 11000000, 10000000, 14000000, 10000000, 10000000, 10000000, 11000000, 10000000,
       13000000, 10000000, 13000000, 10000000, 11000000, 10000000, 13000000, 10000000, 11000000, 10000000,
       10000000, 10000000, 11000000, 10000000, 14000000, 10000000, 14000000, 10000000, 12000000, 10000000,
       13000000, 10000000, 13000000, 10000000, 11000000, 10000000, 13000000, 10000000, 14000000, 10000000,
       10000000, 10000000, 11000000, 10000000, 13000000, 10000000, 14000000, 10000000, 12000000, 10000000,
       13000000, 10000000, 10000000, 10000000, 10000000, 10000000, 13000000, 10000000, 13000000, 10000000,
       14000000, 10000000, 13000000, 10000000, 12000000, 10000000, 14000000, 10000000, 11000000, 10000000,
       12000000, 10000000, 14000000, 10000000, 14000000, 10000000, 10000000, 10000000, 14000000, 10000000,
       12000000, 10000000, 13000000, 10000000, 12000000, 10000000, 11000000, 10000000, 14000000, 10000000,
       14000000, 10000000, 14000000, 10000000, 14000000, 10000000, 10000000, 10000000, 10000000, 10000000,
       13000000, 10000000, 14000000, 10000000, 11000000, 10000000, 13000000, 10000000, 14000000, 10000000,
       10000000, 10000000, 11000000, 10000000, 13000000, 10000000, 11000000, 10000000, 14000000, 10000000,
       12000000, 10000000, 11000000, 10000000, 11000000, 10000000, 10000000, 10000000, 14000000, 10000000,
       11000000, 10000000, 14000000, 10000000, 10000000, 10000000, 14000000, 10000000, 10000000, 10000000,
       10000000, 10000000, 13000000, 10000000, 14000000, 10000000, 12000000, 10000000, 13000000, 10000000,
       10000000, 10000000, 12000000, 10000000, 11000000, 10000000, 11000000, 10000000, 13000000, 10000000,
       12000000, 10000000, 14000000, 10000000, 12000000, 10000000, 13000000, 10000000, 14000000, 10000000,
       14000000, 10000000, 11000000, 10000000, 12000000, 10000000, 14000000, 10000000, 13000000, 10000000,
       11000000, 10000000, 14000000, 10000000, 12000000, 10000000, 11000000, 10000000, 12000000, 10000000,
       12000000, 10000000, 12000000, 10000000, 11000000, 10000000, 14000000, 10000000, 10000000, 10000000,
       14000000, 10000000, 11000000, 10000000, 10000000, 10000000, 10000000, 10000000, 10000000, 10000000,
       13000000, 10000000, 11000000, 10000000, 13000000, 10000000, 10000000, 10000000, 13000000, 10000000,
       13000000, 10000000, 11000000, 10000000, 12000000, 10000000, 13000000, 10000000, 13000000, 10000000,
       10000000, 10000000, 10000000, 10000000, 10000000, 10000000, 14000000, 10000000, 13000000, 10000000,
       10000000, 10000000, 11000000, 10000000, 14000000, 10000000, 12000000, 10000000, 13000000, 10000000,
       13000000, 10000000, 11000000, 10000000, 12000000, 10000000, 12000000, 10000000, 14000000, 10000000,
       13000000, 10000000, 10000000, 10000000, 11000000, 10000000, 11000000, 10000000, 11000000, 10000000,
       11000000, 10000000, 10000000, 10000000, 10000000, 10000000, 14000000, 10000000, 13000000, 10000000,
       10000000, 10000000, 14000000, 10000000, 12000000, 10000000, 13000000, 10000000, 10000000, 10000000,
       12000000, 10000000, 14000000, 10000000, 10000000, 10000000, 10000000, 10000000, 12000000, 10000000,
       10000000, 10000000, 11000000, 10000000, 10000000, 10000000, 13000000, 10000000, 12000000, 10000000,
       13000000, 10000000, 14000000, 10000000, 13000000, 10000000, 11000000, 10000000, 11000000, 10000000,
       13000000, 10000000, 14000000, 10000000, 10000000, 10000000, 11000000, 10000000, 13000000, 10000000,
       13000000, 10000000, 13000000, 10000000, 10000000, 10000000, 12000000, 10000000, 14000000, 10000000,
       12000000, 10000000, 14000000, 10000000, 14000000, 10000000, 13000000, 10000000, 11000000, 10000000,
       13000000, 10000000, 10000000, 10000000, 14000000, 10000000, 11000000, 10000000, 14000000, 10000000,
       14000000, 10000000, 13000000, 10000000, 11000000, 10000000, 11000000, 10000000, 14000000, 10000000 >>

\* c * |x| in thousandths, rounded to the nearest, for a variate x and an
\* integer c of 0..20000; computed limb by limb, within 32-bit integers.
Scale(c, x) ==
    LET abs_a == IF x[1] < 0 THEN -x[1] ELSE x[1]
        abs_b == IF x[2] < 0 THEN -x[2] ELSE x[2]
        t0 == c * (abs_b % 1000)
        t1 == c * (abs_b \div 1000) + t0 \div 1000
        t2 == c * (abs_a % 1000) + t1 \div 1000
    IN  c * (abs_a \div 1000) + t2 \div 1000 + (IF t2 % 1000 >= 500 THEN 1 ELSE 0)

\* np.random.normal(mu, sigma): mu + sigma * z for the standard deviate z
normal(mu, sigma, z) ==
    IF z[1] < 0 \/ z[2] < 0 THEN mu * 1000 - Scale(sigma, z) ELSE mu * 1000 + Scale(sigma, z)
\* np.random.uniform(lo, hi): lo + (hi - lo) * u for the deviate u of [0, 1)
uniform(lo, hi, u) == lo * 1000 + Scale(hi - lo, u)
\* np.random.choice(labels): the index of the label at the integer drawn
choice(nlabels, x) == ((x[1] \div 1000000) % nlabels) + 1
\* A clip that passes every value through.
clip_none(v, lo, hi) == v
\* np.clip, bounds given in units
clip(v, lo, hi) ==
    IF v < lo * 1000 THEN lo * 1000 ELSE IF v > hi * 1000 THEN hi * 1000 ELSE v
\* np.clip on an integer array
clip_int(v, lo, hi) == IF v < lo THEN lo ELSE IF v > hi THEN hi ELSE v
\* .astype(int) of a float in thousandths: truncation toward zero
astype_int(v) == IF v >= 0 THEN v \div 1000 ELSE -((-v) \div 1000)

DepartmentLabels == <<"IT", "Sales", "Marketing", "HR", "Finance">>
CityLabels == <<"New York", "Los Angeles", "Chicago", "Houston", "Phoenix">>

\* n_samples = 1000 (line 612)
n_samples == 1000
\* The number of arrays load_sample_data draws.
SampleArrays == 8

\* The element load_sample_data's k-th array holds for the draw x (lines
\* 614-631): the draw scaled, clipped and cast as the dict literal says.
SampleCell(k, x) ==
    CASE k = 1 -> Num(clip_int(astype_int(normal(35, 12, x)), 18, 65))
      [] k = 2 -> Num(clip(normal(50000, 20000, x), 25000, 150000))
      [] k = 3 -> Num(astype_int(clip(normal(14, 3, x), 8, 20)))
      [] k = 4 -> Num(astype_int(clip(normal(10, 8, x), 0, 40)))
      [] k = 5 -> Num(uniform(1, 10, x))
      [] k = 6 -> Str(choice(Len(DepartmentLabels), x))
      [] k = 7 -> Num(clip(normal(75, 15, x), 0, 100))
      [] k = 8 -> Str(choice(Len(CityLabels), x))

\* An array the generator made: the k-th of the arrays of n elements drawn
\* from state s.  The table keeps the array by these three numbers; its
\* elements are a function of them.
Draw(s, k, n) == [s |-> s, k |-> k, n |-> n]
\* The array of a column that was read from a file.
NoDraw == Draw(Unseeded, 0, 0)
\* The i-th variate of the drawn array g.  The model holds the stream of the
\* seed the program sets and of the length it draws; the program draws from
\* no other state, and for any other the variate stands as zero.
Variate(g, i) ==
    IF g.s = RandomState(42, 0) /\ 2 * g.n * SampleArrays = Len(MT19937)
       /\ g.k \in 1..SampleArrays /\ i \in 1..g.n
    THEN LET j == (g.k - 1) * g.n + i
         IN  <<MT19937[2 * j - 1] - Bias, MT19937[2 * j] - Bias>>
    ELSE <<0, 0>>
\* The elements of a drawn array, computed from its three numbers.
DrawArray(g) == [i \in 1..g.n |-> SampleCell(g.k, Variate(g, i))]
\* The arrays of n_samples elements drawn from the seed load_sample_data sets,
\* computed once and written out.
SeededArrays ==
    [k \in 1..SampleArrays |->
        SubSeq(DrawArray(Draw(RandomState(RandomSeed, 0), k, n_samples)), 1, n_samples)]
\* The elements of a drawn array: DrawArray(g), looked up where it was
\* computed already.
DrawnCells(g) ==
    IF g.s = RandomState(RandomSeed, 0) /\ g.n = n_samples /\ g.k \in 1..SampleArrays
    THEN SeededArrays[g.k]
    ELSE DrawArray(g)

-----------------------------------------------------------------------------
\* Columns and frames.

\* A column whose elements are written out.
Col(name, dtype, cells) ==
    [name |-> name, dtype |-> dtype, cells |-> cells, draw |-> NoDraw]
\* A column whose elements are the drawn array g.
DrawnCol(name, dtype, g) ==
    [name |-> name, dtype |-> dtype, cells |-> <<>>, draw |-> g]
\* The elements of a column, and their number.
Cells(col) == IF col.draw = NoDraw THEN col.cells ELSE DrawnCells(col.draw)
Length(col) == IF col.draw = NoDraw THEN Len(col.cells) ELSE col.draw.n

Frame(cols) == [isNone |-> FALSE, cols |-> cols]
NoneDF == [isNone |-> TRUE, cols |-> <<>>]

\* list(self.df.columns)
Columns(d) == [i \in 1..Len(d.cols) |-> d.cols[i].name]
ColumnSet(d) == {d.cols[i].name : i \in 1..Len(d.cols)}
\* len(self.df)
NRows(d) == IF Len(d.cols) = 0 THEN 0 ELSE Length(d.cols[1])
\* self.df[column], for a column of the frame
Column(d, name) == d.cols[CHOOSE i \in 1..Len(d.cols) : d.cols[i].name = name]

Min(a, b) == IF a < b THEN a ELSE b
Max(a, b) == IF a > b THEN a ELSE b

RECURSIVE SelectSeq2(_, _, _)
\* The subsequence of s whose elements' dtype is in the set kinds.
SelectSeq2(s, kinds, i) ==
    IF i > Len(s) THEN <<>>
    ELSE IF s[i].dtype \in kinds THEN <<s[i]>> \o SelectSeq2(s, kinds, i + 1)
    ELSE SelectSeq2(s, kinds, i + 1)

\* The dtypes select_dtypes(include=[np.number]) keeps.
NumberDTypes == {"int64", "int32", "float64"}
\* self.df.select_dtypes(include=[np.number])
select_number(d) == Frame(SelectSeq2(d.cols, NumberDTypes, 1))
\* self.df.select_dtypes(include=['object'])
select_object(d) == Frame(SelectSeq2(d.cols, {"object"}, 1))
\* A test that finds no frame empty.
IsEmpty_never(d) == FALSE
\* The kind each handler takes a column of a dtype for.
\* show_statistical_summary, show_data_info, correlation_analysis,
\* plot_correlation_heatmap and plot_scatter go by select_dtypes:
select_dtypes_kind(dtype) ==
    IF Len(select_number(Frame(<<Col("c", dtype, <<>>)>>)).cols) = 1 THEN "numeric"
    ELSE IF Len(select_object(Frame(<<Col("c", dtype, <<>>)>>)).cols) = 1 THEN "categorical"
    ELSE "neither"
\* plot_histogram: `self.df[column].dtype in ['object', 'category']` (line 907)
plot_histogram_kind(dtype) ==
    IF dtype \in {"object", "category"} THEN "categorical" ELSE "numeric"
\* analyze_column: `data.dtype in ['int64', 'float64']` (line 1070)
analyze_column_kind(dtype) ==
    IF dtype \in {"int64", "float64"} THEN "numeric" ELSE "categorical"

\* numeric_df.empty: no column or no row
IsEmpty(d) == Len(d.cols) = 0 \/ NRows(d) = 0

\* A cell no hash table takes: value_counts, nunique and describe raise TypeError.
Unhashable(cells) == \E i \in 1..Len(cells) : cells[i].k = "list"

-----------------------------------------------------------------------------
\* The table load_sample_data builds (lines 614-632) from random state s with
\* n rows, the platform's int dtype being ity.
SampleFrame(s, n, ity) ==
    Frame(<< DrawnCol("Age", ity, Draw(s, 1, n)),
             DrawnCol("Income", "float64", Draw(s, 2, n)),
             DrawnCol("Education_Years", ity, Draw(s, 3, n)),
             DrawnCol("Experience", ity, Draw(s, 4, n)),
             DrawnCol("Satisfaction", "float64", Draw(s, 5, n)),
             DrawnCol("Department", "object", Draw(s, 6, n)),
             DrawnCol("Performance_Score", "float64", Draw(s, 7, n)),
             DrawnCol("City", "object", Draw(s, 8, n)) >>)

-----------------------------------------------------------------------------
\* The files the open dialog can return, and what each holds.

\* One numeric column and a bool one.
FlagFrame ==
    Frame(<< Col("Age", "int64", <<Num(25), Num(52)>>),
             Col("Member", "bool", <<[k |-> "bool", v |-> 1], [k |-> "bool", v |-> 0]>>) >>)
\* The JSON document [{"Age": "young", "Income": "low", "tags": [1]},
\* {"Age": "old", "Income": "low", "tags": [2]}]: no numeric column, two columns
\* of words and one of one-element lists.
TaggedFrame ==
    Frame(<< Col("Age", "object", <<Str(1), Str(2)>>),
             Col("Income", "object", <<Str(3), Str(3)>>),
             Col("tags", "object", <<List(1), List(1)>>) >>)
\* The JSON document [] : a frame without columns.
EmptyFrame == Frame(<<>>)
\* The JSON document [{"tags": [1, 2]}, {"tags": [3, 4]}].
NestedFrame == Frame(<< Col("tags", "object", <<List(2), List(2)>>) >>)

File(path, fmt, frame) == [path |-> path, fmt |-> fmt, frame |-> frame]

Files ==
    { File(<<"/", "f", ".", "c", "s", "v">>, "csv", FlagFrame),
      File(<<"/", "t", ".", "j", "s", "o", "n">>, "json", TaggedFrame),
      File(<<"/", "e", ".", "j", "s", "o", "n">>, "json", EmptyFrame),
      File(<<"/", "n", ".", "j", "s", "o", "n">>, "json", NestedFrame),
      File(<<"/", "b", ".", "x", "l", "s">>, "garbage", NoneDF) }

\* str.endswith(suffix)
endswith(s, suffix) ==
    /\ Len(s) >= Len(suffix)
    /\ SubSeq(s, Len(s) - Len(suffix) + 1, Len(s)) = suffix

\* A loader that reads everything as CSV.
ParserFor_csv_only(path) == "read_csv"
\* The reader load_data calls for a path.
ParserFor(path) ==
    IF endswith(path, <<".", "c", "s", "v">>) THEN "read_csv"
    ELSE IF endswith(path, <<".", "x", "l", "s", "x">>) \/ endswith(path, <<".", "x", "l", "s">>)
         THEN "read_excel"
    ELSE IF endswith(path, <<".", "j", "s", "o", "n">>) THEN "read_json"
    ELSE "read_csv"

\* The format a reader parses.
FormatOf(parser) ==
    CASE parser = "read_csv" -> "csv"
      [] parser = "read_excel" -> "excel"
      [] parser = "read_json" -> "json"

\* pd.read_csv / read_excel / read_json on a file: the frame, or an exception.
\* A reader given a file of another format raises.
Read(parser, file) ==
    IF file.fmt = FormatOf(parser)
    THEN [ok |-> TRUE, frame |-> file.frame]
    ELSE [ok |-> FALSE, frame |-> NoneDF]

RECURSIVE LastSlash(_, _)
\* The position of the last "/" of s at or before i, 0 if none.
LastSlash(s, i) == IF i = 0 THEN 0 ELSE IF s[i] = "/" THEN i ELSE LastSlash(s, i - 1)
\* os.path.basename
basename(s) == SubSeq(s, LastSlash(s, Len(s)) + 1, Len(s))

\* self.current_file: None, or a path.
NoFile == [isNone |-> TRUE, path |-> <<>>]
SomeFile(p) == [isNone |-> FALSE, path |-> p]

-----------------------------------------------------------------------------
\* What the handlers write.  Texts are the code's, without the emoji; an
\* f-string's arguments are kept beside the text.  The timestamp the results
\* pane prints (datetime.now()) is left out: no clock is modelled.

\* A message box.
Box(kind, text) == [kind |-> kind, text |-> text]
\* messagebox.showwarning, showerror, showinfo: the boxes the call puts up
showwarning(text) == <<Box("warning", text)>>
\* An except clause that swallows the error.
showerror_silent(text) == <<>>
showerror(text) == <<Box("error", text)>>
showinfo(text) == <<Box("info", text)>>
\* The record of one event: the handler, the way it ended ("done": it ran to
\* its end; "cancelled": the file dialog gave no path; "return": an early
\* return after a warning; "except": its except clause ran;
\* "raised": an exception left it), the boxes it showed, the exception that
\* left it ("" if none), and the names it indexed self.df with.
Ev(op, path, boxes, raised, used) ==
    [op |-> op, path |-> path, boxes |-> boxes, raised |-> raised, used |-> used]
\* update_status(message, status_type)
update_status(text, type, args) == [text |-> text, type |-> type, args |-> args]

\* One axes of the figure: what was drawn on it, of which columns of which frame.
Axes(kind, cols, note, src) == [kind |-> kind, cols |-> cols, note |-> note, src |-> src]
\* create_welcome_plot's axes
WelcomeAxes == Axes("welcome", <<>>, "text", NoneDF)
\* self.fig.add_subplot(111) with nothing drawn yet
BlankAxes == Axes("blank", <<>>, "", NoneDF)

\* A clear() that leaves the axes in place.
fig_clear_kept(f) == f
\* self.fig.clear(): the figure without any of its axes
fig_clear(f) == <<>>
\* self.fig.add_subplot(111), or the colorbar axes seaborn adds, with what is
\* drawn on it
add_subplot(f, axes) == Append(f, axes)

\* self.results_text
Pane(state, kind, col, src) == [state |-> state, kind |-> kind, col |-> col, src |-> src]

\* data.isnull().sum(), counted from position i on
CountNaN(cells, i) == Cardinality({h \in i..Len(cells) : cells[h].k = "nan"})

\* show_data_info's text: shape, missing values per column, column counts.
InfoText(d) ==
    [text |-> "DATASET OVERVIEW",
     shape |-> <<NRows(d), Len(d.cols)>>,
     missing |-> [i \in 1..Len(d.cols) |-> CountNaN(Cells(d.cols[i]), 1)],
     numeric |-> Len(select_number(d).cols),
     categorical |-> Len(select_object(d).cols)]
NoDataText == [text |-> "No data loaded.", shape |-> <<0, 0>>, missing |-> <<>>,
               numeric |-> 0, categorical |-> 0]
EmptyText == [text |-> "", shape |-> <<0, 0>>, missing |-> <<>>,
              numeric |-> 0, categorical |-> 0]

\* show_data_info (lines 693-737), on frame d: the data-info pane's new content.
\* No frame of the model makes the try body raise.
show_data_info_text(d) == IF d.isNone THEN NoDataText ELSE InfoText(d)

\* update_data_status (lines 560-568)
update_data_status(d, file) ==
    IF ~d.isNone
    THEN [text |-> "rows x columns | File:", rows |-> NRows(d), cols |-> Len(d.cols),
          file |-> IF ~file.isNone THEN basename(file.path) ELSE <<"Sample Data">>]
    ELSE [text |-> "No data loaded", rows |-> 0, cols |-> 0, file |-> <<>>]

\* self.df.iloc[i] is a float64 Series when every column is numeric and one is float64.
RowIsFloat(d) ==
    /\ \A j \in 1..Len(d.cols) : d.cols[j].dtype \in NumberDTypes
    /\ \E j \in 1..Len(d.cols) : d.cols[j].dtype = "float64"

\* `if pd.isna(val)` raises ValueError on a list of two or more elements.
IsNaRaises(c) == c.k = "list" /\ c.v >= 2

\* The string update_data_display inserts for a cell (lines 668-673).
FormatCell(d, j, c) ==
    IF c.k = "nan" THEN [fmt |-> "NaN", cell |-> c]
    ELSE IF c.k = "num" /\ (d.cols[j].dtype = "float64" \/ RowIsFloat(d))
         THEN [fmt |-> ".3f", cell |-> c]
    ELSE [fmt |-> "str", cell |-> c]

EmptyTree == [columns |-> <<>>, rows |-> <<>>, more |-> FALSE]

\* update_data_display (lines 643-683) on frame d with the tree and the label as
\* they are: [raised, tree, label].  It raises at the first displayed row that
\* holds a cell pd.isna cannot test, after inserting the rows before it and
\* before update_data_status.
update_data_display(d, tree, label, file) ==
    IF d.isNone THEN [raised |-> FALSE, tree |-> tree, label |-> label]
    ELSE
    LET display_rows == Min(DisplayLimit, NRows(d))
        bad(i) == \E j \in 1..Len(d.cols) : IsNaRaises(Cells(d.cols[j])[i])
        row(i) == [j \in 1..Len(d.cols) |-> FormatCell(d, j, Cells(d.cols[j])[i])]
        stop == IF \E i \in 1..display_rows : bad(i)
                THEN CHOOSE i \in 1..display_rows :
                        bad(i) /\ \A h \in 1..(i - 1) : ~bad(h)
                ELSE display_rows + 1
    IN  IF stop <= display_rows
        THEN [raised |-> TRUE,
              tree |-> [columns |-> Columns(d), rows |-> [i \in 1..(stop - 1) |-> row(i)],
                        more |-> FALSE],
              label |-> label]
        ELSE [raised |-> FALSE,
              tree |-> [columns |-> Columns(d), rows |-> [i \in 1..display_rows |-> row(i)],
                        more |-> NRows(d) > DisplayLimit],
              label |-> update_data_status(d, file)]

\* A loader that leaves the combobox as it was.
update_column_list_skipped(d, values, sel) == [values |-> values, sel |-> sel]
\* update_column_list (lines 685-691): [values, sel]
update_column_list(d, values, sel) ==
    IF ~d.isNone
    THEN [values |-> Columns(d), sel |-> IF Len(d.cols) > 0 THEN Columns(d)[1] ELSE sel]
    ELSE [values |-> values, sel |-> sel]

\* A generator that is never seeded again.
np_random_seed_ignored(old, seed) == old
\* np.random.seed(seed): the state after it, whatever the state before
np_random_seed(old, seed) == RandomState(seed, 0)

\* A handler that tests nothing before it uses self.df.
NoData_unchecked == FALSE
\* `self.df is None`
NoData == df.isNone

\* No computation has been run on its own.
NoCall == [fn |-> "", arg |-> <<>>, out |-> <<>>]

\* Events the model lets the main loop dispatch in one run.
MaxCalls == 4
\* Tk's main loop dispatches one more event.
Tick == calls < MaxCalls /\ calls' = calls + 1

-----------------------------------------------------------------------------
Init ==
    /\ df = NoneDF
    /\ current_file = NoFile
    /\ column_var = ""
    /\ combo_values = <<>>
    /\ data_tree = EmptyTree
    /\ data_status = update_data_status(NoneDF, NoFile)
    /\ data_info = EmptyText
    /\ results = Pane("disabled", "welcome", "", NoneDF)
    /\ fig = <<WelcomeAxes>>
    /\ canvas = <<WelcomeAxes>>
    /\ tab = "plot"
    /\ status = update_status("Ready for data analysis", "success", <<>>)
    /\ dialogs = <<>>
    /\ calls = 0
    /\ rng = Unseeded
    /\ intp \in {"int64", "int32"}
    /\ ev = Ev("__init__", "done", <<>>, "", {})
    /\ call = NoCall

\* A handler that reports progress before it looks at the path.
no_path_effect_loading ==
    /\ status' = update_status("Loading data...", "info", <<>>)
    /\ UNCHANGED <<df, current_file, column_var, combo_values, data_tree, data_status,
                   data_info, results, fig, canvas, tab, dialogs>>
\* What load_data and save_plot do when the file dialog gave no path
\* (`if file_path:` with no else): nothing.
no_path_effect ==
    UNCHANGED <<df, current_file, column_var, combo_values, data_tree, data_status,
                data_info, results, fig, canvas, tab, status, dialogs>>

\* load_data (lines 570-605): the open dialog returns a path of Files, or "".
load_data ==
    /\ Tick
    /\ UNCHANGED call
    /\ \E file_path \in {<<>>} \cup {f.path : f \in Files} :
       /\ UNCHANGED <<intp, rng>>
       /\ IF file_path = <<>>
          THEN /\ ev' = Ev("load_data", "cancelled", <<>>, "", {})
               /\ no_path_effect
          ELSE
          LET file == CHOOSE f \in Files : f.path = file_path
              r == Read(ParserFor(file_path), file)
              disp == update_data_display(r.frame, data_tree, data_status, SomeFile(file_path))
              cl == update_column_list(r.frame, combo_values, column_var)
              failed == /\ ev' = Ev("load_data", "except",
                                    showerror("Failed to load data"), "", {})
                        /\ status' = update_status("Failed to load data", "error", <<>>)
          IN  /\ UNCHANGED <<results, fig, canvas, tab, dialogs>>
              /\ IF ~r.ok
                 THEN \* the reader raised: self.df was not assigned
                      /\ failed
                      /\ UNCHANGED <<df, current_file, column_var, combo_values,
                                     data_tree, data_status, data_info>>
                 ELSE IF disp.raised
                 THEN \* update_data_display raised, after the two assignments
                      /\ failed
                      /\ df' = r.frame
                      /\ current_file' = SomeFile(file_path)
                      /\ data_tree' = disp.tree
                      /\ UNCHANGED <<column_var, combo_values, data_status, data_info>>
                 ELSE /\ df' = r.frame
                      /\ current_file' = SomeFile(file_path)
                      /\ data_tree' = disp.tree
                      /\ data_status' = disp.label
                      /\ combo_values' = cl.values
                      /\ column_var' = cl.sel
                      /\ data_info' = show_data_info_text(r.frame)
                      /\ status' = update_status("Data loaded successfully!", "success", <<>>)
                      /\ ev' = Ev("load_data", "done", <<>>, "", {})

\* load_sample_data (lines 607-641).  Nothing in its try body raises.
load_sample_data ==
    /\ Tick
    /\ UNCHANGED call
    /\ LET seeded == np_random_seed(rng, RandomSeed)
           frame == SampleFrame(seeded, n_samples, intp)
           disp == update_data_display(frame, data_tree, data_status, NoFile)
           cl == update_column_list(frame, combo_values, column_var)
       IN  /\ rng' = Advance(seeded, SampleArrays * n_samples)
           /\ df' = frame
           /\ current_file' = NoFile
           /\ data_tree' = disp.tree
           /\ data_status' = disp.label
           /\ combo_values' = cl.values
           /\ column_var' = cl.sel
           /\ data_info' = show_data_info_text(frame)
           /\ status' = update_status("Sample data loaded!", "success", <<>>)
           /\ ev' = Ev("load_sample_data", "done", <<>>, "", {})
           /\ UNCHANGED <<results, fig, canvas, tab, dialogs, intp>>

\* show_data_info (lines 693-737), as the Data Info button calls it.
show_data_info ==
    /\ Tick
    /\ UNCHANGED call
    /\ data_info' = show_data_info_text(df)
    /\ ev' = Ev("show_data_info", "done", <<>>, "", {})
    /\ UNCHANGED <<df, current_file, column_var, combo_values, data_tree, data_status,
                   results, fig, canvas, tab, status, dialogs, rng, intp>>

\* df.describe(include='all') raises ValueError on a frame without columns and
\* TypeError on an object column holding lists.
DescribeRaises(d) ==
    \/ Len(d.cols) = 0
    \/ \E j \in 1..Len(d.cols) : d.cols[j].dtype = "object" /\ Unhashable(Cells(d.cols[j]))

\* show_statistical_summary (lines 739-795)
show_statistical_summary ==
    /\ Tick
    /\ UNCHANGED call
    /\ UNCHANGED <<df, current_file, column_var, combo_values, data_tree, data_status,
                   data_info, fig, canvas, dialogs, rng, intp>>
    /\ IF NoData
       THEN /\ ev' = Ev("show_statistical_summary", "return",
                        showwarning("No data loaded!"), "", {})
            /\ UNCHANGED <<results, tab, status>>
       ELSE IF DescribeRaises(df)
       THEN /\ ev' = Ev("show_statistical_summary", "except",
                        showerror("Failed to generate summary"), "", {})
            /\ UNCHANGED <<results, tab, status>>
       ELSE /\ results' = Pane("disabled", "summary", "", df)
            /\ tab' = "results"
            /\ status' = update_status("Statistical summary generated", "success", <<>>)
            /\ ev' = Ev("show_statistical_summary", "done", <<>>, "", ColumnSet(df))

\* correlation_analysis (lines 797-850)
correlation_analysis ==
    /\ Tick
    /\ UNCHANGED call
    /\ UNCHANGED <<df, current_file, column_var, combo_values, data_tree, data_status,
                   data_info, fig, canvas, dialogs, rng, intp>>
    /\ IF NoData
       THEN /\ ev' = Ev("correlation_analysis", "return",
                        showwarning("No data loaded!"), "", {})
            /\ UNCHANGED <<results, tab, status>>
       ELSE IF IsEmpty(select_number(df))
       THEN /\ ev' = Ev("correlation_analysis", "return",
                        showwarning("No numeric columns for correlation analysis!"),
                        "", {})
            /\ UNCHANGED <<results, tab, status>>
       ELSE /\ results' = Pane("disabled", "correlation", "", df)
            /\ tab' = "results"
            /\ status' = update_status("Correlation analysis completed", "success", <<>>)
            /\ ev' = Ev("correlation_analysis", "done", <<>>, "", ColumnSet(select_number(df)))

\* plot_correlation_heatmap (lines 852-889)
plot_correlation_heatmap ==
    /\ Tick
    /\ UNCHANGED call
    /\ UNCHANGED <<df, current_file, column_var, combo_values, data_tree, data_status,
                   data_info, results, dialogs, rng, intp>>
    /\ IF NoData
       THEN /\ ev' = Ev("plot_correlation_heatmap", "return",
                        showwarning("No data loaded!"), "", {})
            /\ UNCHANGED <<fig, canvas, tab, status>>
       ELSE IF IsEmpty(select_number(df))
       THEN /\ ev' = Ev("plot_correlation_heatmap", "return",
                        showwarning("No numeric columns for correlation heatmap!"),
                        "", {})
            /\ UNCHANGED <<fig, canvas, tab, status>>
       ELSE LET ax == add_subplot(fig_clear(fig),
                                  Axes("heatmap", Columns(select_number(df)), "annot", df))
                \* sns.heatmap draws its colorbar on an axes of its own
                drawn == add_subplot(ax, Axes("colorbar", <<>>, "", df))
            IN  /\ fig' = drawn
                /\ canvas' = drawn
                /\ tab' = "plot"
                /\ status' = update_status("Correlation heatmap created", "success", <<>>)
                /\ ev' = Ev("plot_correlation_heatmap", "done", <<>>, "", ColumnSet(select_number(df)))

\* ax.hist(data, bins=30) on a bool column that holds both True and False:
\* np.histogram takes the range (False, True) and subtracts its two edges, and
\* numpy raises TypeError on a boolean subtract.  A bool column of one value
\* only has its range widened to floats first, and is drawn.
HistRaises(col) ==
    /\ col.dtype = "bool"
    /\ \E i, j \in 1..Length(col) :
          /\ Cells(col)[i].k = "bool" /\ Cells(col)[j].k = "bool"
          /\ Cells(col)[i].v # Cells(col)[j].v

\* The body of plot_histogram (lines 891-945), called as op.
plot_histogram_as(op) ==
    /\ Tick
    /\ UNCHANGED call
    /\ UNCHANGED <<df, current_file, column_var, combo_values, data_tree, data_status,
                   data_info, results, dialogs, rng, intp>>
    /\ IF NoData \/ column_var = ""
       THEN /\ ev' = Ev(op, "return", showwarning("No data or column selected!"), "", {})
            /\ UNCHANGED <<fig, canvas, tab, status>>
       ELSE IF column_var \notin ColumnSet(df)
       THEN /\ ev' = Ev(op, "return", showwarning("Selected column not found!"), "", {})
            /\ UNCHANGED <<fig, canvas, tab, status>>
       ELSE
       LET data == Column(df, column_var)
           categorical == plot_histogram_kind(data.dtype) = "categorical"
       IN  IF (categorical /\ Unhashable(Cells(data))) \/ (~categorical /\ HistRaises(data))
           THEN \* value_counts or ax.hist raised, after fig.clear() and add_subplot
                /\ fig' = add_subplot(fig_clear(fig), BlankAxes)
                /\ ev' = Ev(op, "except", showerror("Failed to create histogram"), "", {column_var})
                /\ UNCHANGED <<canvas, tab, status>>
           ELSE LET drawn == add_subplot(fig_clear(fig),
                                         Axes(IF categorical THEN "bar" ELSE "hist",
                                              <<column_var>>,
                                              IF categorical THEN "counts" ELSE "stats", df))
                IN  /\ fig' = drawn
                    /\ canvas' = drawn
                    /\ tab' = "plot"
                    /\ status' = update_status("Histogram created for", "success", <<column_var>>)
                    /\ ev' = Ev(op, "done", <<>>, "", {column_var})

plot_histogram == plot_histogram_as("plot_histogram")
\* line 1107
plot_column == plot_histogram_as("plot_column")
\* line 1118
distribution_analysis == plot_histogram_as("distribution_analysis")

\* A scatter dialog: the list its comboboxes offer, and x_var and y_var.
Dialog(cols, x, y) == [cols |-> cols, x |-> x, y |-> y]

\* s without its i-th element
Remove(s, i) == SubSeq(s, 1, i - 1) \o SubSeq(s, i + 1, Len(s))

\* A destroy() that was forgotten.
dialog_destroy_forgotten(ds, i) == ds
\* dialog.destroy(), of the i-th open dialog
dialog_destroy(ds, i) == Remove(ds, i)

\* plot_scatter (lines 947-1010): it builds the dialog and returns; the dialog is
\* a plain Toplevel, so the main window's buttons stay live while it is open.
plot_scatter ==
    /\ Tick
    /\ UNCHANGED call
    /\ UNCHANGED <<df, current_file, column_var, combo_values, data_tree, data_status,
                   data_info, results, fig, canvas, tab, status, rng, intp>>
    /\ IF NoData
       THEN /\ ev' = Ev("plot_scatter", "return", showwarning("No data loaded!"), "", {})
            /\ UNCHANGED dialogs
       ELSE LET numeric_cols == Columns(select_number(df))
                \* tk.Toplevel(self.root): the new window, its widgets not yet made
                opened == Append(dialogs, Dialog(<<>>, "", ""))
            IN  IF Len(numeric_cols) < 2
                THEN /\ ev' = Ev("plot_scatter", "return",
                                 showwarning("Need at least 2 numeric columns for scatter plot!"),
                                 "", {})
                     /\ dialogs' = dialog_destroy(opened, Len(opened))
                ELSE /\ Len(dialogs) < MaxDialogs
                     /\ dialogs' = [opened EXCEPT ![Len(opened)] =
                                       Dialog(numeric_cols, numeric_cols[1], numeric_cols[2])]
                     /\ ev' = Ev("plot_scatter", "done", <<>>, "", {})

\* create_scatter (lines 978-1007), the Create Plot button of dialog i.
create_scatter ==
    /\ Tick
    /\ UNCHANGED call
    /\ \E i \in 1..Len(dialogs) :
       LET x_col == dialogs[i].x
           y_col == dialogs[i].y
           failed(axes, used) ==
               /\ fig' = add_subplot(fig_clear(fig), axes)
               /\ ev' = Ev("create_scatter", "except",
                           showerror("Failed to create scatter plot"), "", used)
               /\ UNCHANGED <<canvas, tab, status, dialogs>>
       IN  /\ UNCHANGED <<df, current_file, column_var, combo_values, data_tree, data_status,
                          data_info, results, rng, intp>>
           /\ IF x_col \notin ColumnSet(df)
              THEN \* self.df[x_col] raised KeyError
                   failed(BlankAxes, {x_col})
              ELSE IF y_col \notin ColumnSet(df)
              THEN failed(BlankAxes, {x_col, y_col})
              ELSE IF Column(df, x_col).dtype = "object" \/ Column(df, y_col).dtype = "object"
              THEN \* Series.corr raised on a column of words, after ax.scatter
                   failed(Axes("scatter", <<x_col, y_col>>, "", df), {x_col, y_col})
              ELSE LET drawn == add_subplot(fig_clear(fig),
                                            Axes("scatter", <<x_col, y_col>>, "corr", df))
                   IN  /\ fig' = drawn
                       /\ canvas' = drawn
                       /\ tab' = "plot"
                       /\ dialogs' = dialog_destroy(dialogs, i)
                       /\ status' = update_status("Scatter plot created:", "success",
                                                  <<x_col, y_col>>)
                       /\ ev' = Ev("create_scatter", "done", <<>>, "", {x_col, y_col})

\* The user picks an entry of a dialog's readonly combobox (lines 968-976).
pick_axis ==
    /\ Tick
    /\ UNCHANGED call
    /\ \E i \in 1..Len(dialogs) :
       \E j \in 1..Min(MaxPick, Len(dialogs[i].cols)) :
          \E axis \in {"x", "y"} :
             /\ dialogs' = [dialogs EXCEPT ![i] =
                               IF axis = "x" THEN [@ EXCEPT !.x = dialogs[i].cols[j]]
                               ELSE [@ EXCEPT !.y = dialogs[i].cols[j]]]
             /\ ev' = Ev("pick_axis", "done", <<>>, "", {})
             /\ UNCHANGED <<df, current_file, column_var, combo_values, data_tree,
                            data_status, data_info, results, fig, canvas, tab, status,
                            rng, intp>>

\* The user closes a dialog's window without creating a plot (line 954).
close_dialog ==
    /\ Tick
    /\ UNCHANGED call
    /\ \E i \in 1..Len(dialogs) :
       /\ dialogs' = Remove(dialogs, i)
       /\ ev' = Ev("close_dialog", "done", <<>>, "", {})
       /\ UNCHANGED <<df, current_file, column_var, combo_values, data_tree, data_status,
                      data_info, results, fig, canvas, tab, status, rng, intp>>

\* The entries of the column combobox the user picks among: of the sample
\* table, an int column, a float one and one of labels; of the tagged table,
\* also the column of lists.
ColumnPicks == {1, 2, 3, 6}

\* The user picks an entry of the column combobox, which is readonly (lines 294-297).
select_column ==
    /\ Tick
    /\ UNCHANGED call
    /\ \E j \in ColumnPicks \cap (1..Len(combo_values)) :
       /\ column_var' = combo_values[j]
       /\ ev' = Ev("select_column", "done", <<>>, "", {})
       /\ UNCHANGED <<df, current_file, combo_values, data_tree, data_status, data_info,
                      results, fig, canvas, tab, status, dialogs, rng, intp>>

\* The paths the save dialog can return: a PNG name and one of a format
\* savefig does not know.
SavePaths == { <<"/", "o", ".", "p", "n", "g">>, <<"/", "o", ".", "x", "y", "z">> }
\* self.fig.savefig raises ValueError for a format it does not support.
SavefigRaises(path) ==
    ~ \E ext \in { <<".", "p", "n", "g">>, <<".", "p", "d", "f">>, <<".", "s", "v", "g">> } :
         endswith(path, ext)

\* save_plot (lines 1012-1037).  self.fig is never None after setup_plot_area.
save_plot ==
    /\ Tick
    /\ UNCHANGED call
    /\ \E file_path \in {<<>>} \cup SavePaths :
       /\ UNCHANGED <<rng, intp>>
       /\ IF file_path = <<>>
          THEN /\ ev' = Ev("save_plot", "cancelled", <<>>, "", {})
               /\ no_path_effect
          ELSE IF SavefigRaises(file_path)
          THEN /\ ev' = Ev("save_plot", "except", showerror("Failed to save plot"), "", {})
               /\ UNCHANGED <<df, current_file, column_var, combo_values, data_tree,
                              data_status, data_info, results, fig, canvas, tab, status,
                              dialogs>>
          ELSE \* savefig wrote the file
               /\ status' = update_status("Plot saved successfully", "success", <<>>)
               /\ UNCHANGED <<df, current_file, column_var, combo_values, data_tree,
                              data_status, data_info, results, fig, canvas, tab, dialogs>>
               /\ ev' = Ev("save_plot", "done", showinfo("Plot saved successfully!"), "", {})

\* clear_plot (lines 1039-1043)
clear_plot ==
    /\ Tick
    /\ UNCHANGED call
    /\ fig' = add_subplot(fig_clear(fig), WelcomeAxes)
    /\ canvas' = add_subplot(fig_clear(fig), WelcomeAxes)
    /\ status' = update_status("Plot cleared", "info", <<>>)
    /\ ev' = Ev("clear_plot", "done", <<>>, "", {})
    /\ UNCHANGED <<df, current_file, column_var, combo_values, data_tree, data_status,
                   data_info, results, tab, dialogs, rng, intp>>

\* analyze_column (lines 1048-1104).  It has no try: what raises leaves it.
analyze_column ==
    /\ Tick
    /\ UNCHANGED call
    /\ UNCHANGED <<df, current_file, column_var, combo_values, data_tree, data_status,
                   data_info, fig, canvas, dialogs, rng, intp>>
    /\ IF NoData \/ column_var = ""
       THEN /\ ev' = Ev("analyze_column", "return", showwarning("No data or column selected!"),
                        "", {})
            /\ UNCHANGED <<results, tab, status>>
       ELSE IF column_var \notin ColumnSet(df)
       THEN \* data = self.df[column] raised KeyError
            /\ ev' = Ev("analyze_column", "raised", <<>>, "KeyError", {column_var})
            /\ UNCHANGED <<results, tab, status>>
       ELSE
       LET data == Column(df, column_var)
       IN  IF analyze_column_kind(data.dtype) = "categorical" /\ Unhashable(Cells(data))
           THEN \* value_counts raised TypeError, the pane emptied and editable
                /\ results' = Pane("normal", "deleted", "", NoneDF)
                /\ ev' = Ev("analyze_column", "raised", <<>>, "TypeError", {column_var})
                /\ UNCHANGED <<tab, status>>
           ELSE /\ results' = Pane("disabled",
                                   IF analyze_column_kind(data.dtype) = "numeric"
                                   THEN "NUMERIC ANALYSIS" ELSE "CATEGORICAL ANALYSIS",
                                   column_var, df)
                /\ tab' = "results"
                /\ status' = update_status("Analysis completed for", "success", <<column_var>>)
                /\ ev' = Ev("analyze_column", "done", <<>>, "", {column_var})

\* The placeholder handlers (lines 1108-1129) and the notice each shows.
StubHandlers ==
    { <<"plot_line", "Line plot feature coming soon!">>,
      <<"plot_boxplot", "Box plot feature coming soon!">>,
      <<"plot_pie", "Pie chart feature coming soon!">>,
      <<"plot_bar", "Bar plot feature coming soon!">>,
      <<"plot_violin", "Violin plot feature coming soon!">>,
      <<"plot_pairplot", "Pair plot feature coming soon!">>,
      <<"plot_distribution", "Distribution plot feature coming soon!">>,
      <<"show_data_types", "Data types feature implemented in data info!">>,
      <<"analyze_missing_values", "Missing values analysis in data info!">>,
      <<"outlier_detection", "Outlier detection feature coming soon!">>,
      <<"feature_importance", "Feature importance coming soon!">>,
      <<"normality_test", "Normality test coming soon!">>,
      <<"pca_analysis", "PCA analysis coming soon!">>,
      <<"clustering_analysis", "Clustering analysis coming soon!">>,
      <<"anova_analysis", "ANOVA test coming soon!">>,
      <<"data_cleaner", "Data cleaner tool coming soon!">>,
      <<"feature_engineer", "Feature engineering coming soon!">>,
      <<"show_settings", "Settings panel coming soon!">>,
      <<"save_analysis", "Save analysis feature coming soon!">>,
      <<"export_report", "Export report feature coming soon!">> }
StubNames == {h[1] : h \in StubHandlers}

\* A placeholder that reports itself in the status bar.
stub_effect_status ==
    /\ status' = update_status("Feature coming soon", "info", <<>>)
    /\ UNCHANGED <<df, current_file, column_var, combo_values, data_tree, data_status,
                   data_info, results, fig, canvas, tab, dialogs, rng>>
\* What a placeholder handler does to the application's state: nothing.
stub_effect == UNCHANGED appState

\* A placeholder handler: one messagebox.showinfo.
stub_handler ==
    /\ Tick
    /\ UNCHANGED call
    /\ \E h \in StubHandlers :
       /\ ev' = Ev(h[1], "done", showinfo(h[2]), "", {})
       /\ stub_effect
       /\ UNCHANGED intp

Next ==
    \/ load_data
    \/ load_sample_data
    \/ show_data_info
    \/ show_statistical_summary
    \/ correlation_analysis
    \/ plot_correlation_heatmap
    \/ plot_histogram
    \/ plot_column
    \/ distribution_analysis
    \/ plot_scatter
    \/ create_scatter
    \/ pick_axis
    \/ close_dialog
    \/ select_column
    \/ save_plot
    \/ clear_plot
    \/ analyze_column
    \/ stub_handler

Spec == Init /\ [][Next]_vars

-----------------------------------------------------------------------------
\* The computations inside the handlers' bodies, run on their own on inputs
\* drawn from bounded sets: the second specification, FnSpec.

\* The controller's state, which these computations leave alone.
objectVars == <<df, current_file, column_var, combo_values, data_tree, data_status,
                data_info, results, fig, canvas, tab, status, dialogs, rng, calls,
                intp, ev>>

\* Each run of FnSpec runs one computation on one input.
Idle == call = NoCall

\* Numeric columns of the tables whose correlation matrices are drawn.
MaxCorrCols == 3
\* |r| > 0.7 (line 832), a coefficient being kept in thousandths
StrongThreshold == 700

\* The names of the numeric columns of the sample table, in its order.
CorrNames == <<"Age", "Income", "Education_Years", "Experience", "Satisfaction">>
\* The coefficients drawn: around both thresholds, none, and NaN (what corr()
\* gives for a constant column).
CorrValues == {Num(-701), Num(-700), Num(0), Num(700), Num(701), NaN}
\* The index pairs above the diagonal.
UpperPairs(n) == {p \in (1..n) \X (1..n) : p[1] < p[2]}
\* numeric_df.corr() of n columns: symmetric, with ones on the diagonal.
CorrMatrices(n) ==
    { [p \in (1..n) \X (1..n) |->
          IF p[1] = p[2] THEN Num(1000)
          ELSE u[<<Min(p[1], p[2]), Max(p[1], p[2])>>]] : u \in [UpperPairs(n) -> CorrValues] }

\* abs(x)
abs(x) == IF x < 0 THEN -x ELSE x
\* A test that takes the threshold itself as strong.
is_strong_inclusive(corr_val) == corr_val.k = "num" /\ abs(corr_val.v) >= StrongThreshold
\* abs(corr_val) > 0.7; a comparison with NaN is False
is_strong(corr_val) == corr_val.k = "num" /\ abs(corr_val.v) > StrongThreshold
\* An inner loop over the whole row.
first_j_whole_row(i) == 1
\* range(i+1, len(corr_matrix.columns)): the first j of row i (rows from 1 here)
first_j(i) == i + 1

RECURSIVE strong_corr_from(_, _, _, _)
\* The two nested loops of lines 828-833, from position (i, j) on.
strong_corr_from(columns, corr_matrix, i, j) ==
    IF i > Len(columns) THEN <<>>
    ELSE IF j > Len(columns)
    THEN strong_corr_from(columns, corr_matrix, i + 1, first_j(i + 1))
    ELSE (IF is_strong(corr_matrix[<<i, j>>])
          THEN << <<columns[i], columns[j], corr_matrix[<<i, j>>].v>> >>
          ELSE <<>>)
         \o strong_corr_from(columns, corr_matrix, i, j + 1)
\* strong_corr after the loops
strong_corr(columns, corr_matrix) == strong_corr_from(columns, corr_matrix, 1, first_j(1))
\* What lines 835-839 append to the result text.
strong_corr_text(strong) ==
    IF strong # <<>> THEN [lines |-> strong, note |-> ""]
    ELSE [lines |-> <<>>, note |-> "No strong correlations found (|r| > 0.7)"]

\* correlation_analysis's report of strong correlations (lines 827-839), for
\* the correlation matrix of a table of n numeric columns.
strong_correlations ==
    /\ Idle
    /\ \E n \in 1..MaxCorrCols : \E corr_matrix \in CorrMatrices(n) :
          LET columns == SubSeq(CorrNames, 1, n)
              strong == strong_corr(columns, corr_matrix)
          IN  call' = [fn |-> "strong_corr",
                       arg |-> [columns |-> columns, corr_matrix |-> corr_matrix],
                       out |-> [strong_corr |-> strong, text |-> strong_corr_text(strong)]]
    /\ UNCHANGED objectVars

\* load_sample_data's table (lines 611-632): the generator seeded with
\* RandomSeed, n_samples rows, and either int dtype.
sample_data ==
    /\ Idle
    /\ \E ity \in {"int64", "int32"} :
          call' = [fn |-> "sample_data",
                   arg |-> [seed |-> RandomSeed, n_samples |-> n_samples, ity |-> ity],
                   out |-> SampleFrame(np_random_seed(rng, RandomSeed), n_samples, ity)]
    /\ UNCHANGED objectVars

\* Distinct values of the categorical columns drawn.
MaxUnique == 16
\* Missing values appended to them.
MaxMissing == 1

RECURSIVE Repeat(_, _)
\* n copies of cell c
Repeat(c, n) == IF n = 0 THEN <<>> ELSE <<c>> \o Repeat(c, n - 1)
RECURSIVE Runs(_, _, _, _, _)
\* Values i..K, value i repeated 1 + ((a * i + b) % m) times.
Runs(i, K, a, b, m) ==
    IF i > K THEN <<>>
    ELSE Repeat(Str(i), 1 + ((a * i + b) % m)) \o Runs(i + 1, K, a, b, m)
\* s back to front
Reverse(s) == [i \in 1..Len(s) |-> s[Len(s) + 1 - i]]
\* The categorical columns drawn: K distinct words with frequencies between 1
\* and 3, in either order, and NaN at the end.
CategoricalColumns ==
    { (IF rev THEN Reverse(Runs(1, K, a, b, m)) ELSE Runs(1, K, a, b, m)) \o Repeat(NaN, nan) :
        K \in 0..MaxUnique, a \in 0..2, b \in 0..1, m \in 1..3, rev \in BOOLEAN,
        nan \in 0..MaxMissing }

\* A dropna that drops nothing.
dropna_none(cells) == cells
\* Series.dropna()
dropna(cells) == SelectSeq(cells, LAMBDA c : c.k # "nan")
RECURSIVE unique(_, _)
\* The distinct cells of cells[i..], in the order of their first appearance.
unique(cells, i) ==
    IF i > Len(cells) THEN <<>>
    ELSE (IF \E j \in 1..(i - 1) : cells[j] = cells[i] THEN <<>> ELSE <<cells[i]>>)
         \o unique(cells, i + 1)
\* How often cell c occurs in cells.
CountOf(cells, c) == Cardinality({j \in 1..Len(cells) : cells[j] = c})
RECURSIVE sort_descending(_)
\* sort_values(ascending=False) of value/count entries; ties keep their order.
sort_descending(entries) ==
    IF entries = <<>> THEN <<>>
    ELSE LET top == CHOOSE i \in 1..Len(entries) :
                       /\ \A j \in 1..Len(entries) : entries[j].count <= entries[i].count
                       /\ \A j \in 1..(i - 1) : entries[j].count < entries[i].count
         IN  <<entries[top]>> \o sort_descending(Remove(entries, top))
\* Series.value_counts(): missing values dropped, most frequent first
value_counts(cells) ==
    LET data == dropna(cells)
        u == unique(data, 1)
    IN  sort_descending([i \in 1..Len(u) |-> [value |-> u[i], count |-> CountOf(data, u[i])]])
\* A head that keeps every row.
head_all(s, n) == s
\* Series.head(n)
head(s, n) == SubSeq(s, 1, Min(n, Len(s)))
\* Series.nunique() counting the missing value as one more.
nunique_with_missing(cells) == Len(unique(cells, 1))
\* Series.nunique()
nunique(cells) == Len(unique(dropna(cells), 1))

\* The bar plot of a categorical column (lines 907-920): the bars' heights,
\* the tick labels and the text above each bar.
bar_plot(cells) ==
    LET vc == head(value_counts(cells), HistTopN)
    IN  [heights |-> [i \in 1..Len(vc) |-> vc[i].count],
         xticklabels |-> [i \in 1..Len(vc) |-> vc[i].value],
         texts |-> [i \in 1..Len(vc) |-> vc[i].count]]

\* plot_histogram's categorical branch, for a column of words.
categorical_histogram ==
    /\ Idle
    /\ \E cells \in CategoricalColumns :
          call' = [fn |-> "bar_plot", arg |-> cells, out |-> bar_plot(cells)]
    /\ UNCHANGED objectVars

\* Rows of the numeric columns drawn.
MaxHistRows == 3
\* bins=30 (line 925)
HistBins == 30

\* The cells a numeric column is drawn from (floats, in tenths).
HistValues == {Num(0), Num(10), Num(295), Num(300), NaN}
\* The numeric columns drawn.
NumericColumns == UNION { [1..n -> HistValues] : n \in 0..MaxHistRows }

RECURSIVE SumFrom(_, _)
\* xs[i] + ... + xs[Len(xs)]
SumFrom(xs, i) == IF i > Len(xs) THEN 0 ELSE xs[i] + SumFrom(xs, i + 1)
\* Series.sum() of a column without missing values, and the sum of its squares
SeriesSum(data) == SumFrom([i \in 1..Len(data) |-> data[i].v], 1)
SeriesSumSq(data) == SumFrom([i \in 1..Len(data) |-> data[i].v * data[i].v], 1)
\* min and max of a column without missing values
SeriesMin(data) == CHOOSE v \in {data[i].v : i \in 1..Len(data)} :
                       \A i \in 1..Len(data) : v <= data[i].v
SeriesMax(data) == CHOOSE v \in {data[i].v : i \in 1..Len(data)} :
                       \A i \in 1..Len(data) : v >= data[i].v
\* The bin (from 1) np.histogram puts v in, for bins equal bins between lo and
\* hi, the last one closed; when lo = hi the range is lo - 0.5 to lo + 0.5 and
\* v is in the middle of it.
bin_of(v, lo, hi, bins) ==
    IF lo = hi THEN (bins \div 2) + 1
    ELSE Min(((v - lo) * bins) \div (hi - lo), bins - 1) + 1
\* ax.hist(data, bins=30): the frequency of each bin
hist(data, bins) ==
    [k \in 1..bins |->
        IF data = <<>> THEN 0
        ELSE Cardinality({i \in 1..Len(data) :
                 bin_of(data[i].v, SeriesMin(data), SeriesMax(data), bins) = k})]
\* data.mean(): the ratio sum / count, NaN for no value
mean(data) ==
    IF data = <<>> THEN NaN
    ELSE [k |-> "ratio", num |-> SeriesSum(data), den |-> Len(data)]
\* data.std(), as its square: the sample variance, NaN for fewer than two values
std(data) ==
    IF Len(data) < 2 THEN NaN
    ELSE [k |-> "ratio",
          num |-> Len(data) * SeriesSumSq(data) - SeriesSum(data) * SeriesSum(data),
          den |-> Len(data) * (Len(data) - 1)]

\* The histogram of a numeric column (lines 922-934): the bins' frequencies
\* and the statistics of the text box.
histogram(cells) ==
    LET data == dropna(cells)
    IN  [n |-> hist(data, HistBins),
         Mean |-> mean(data), Std |-> std(data), Count |-> Len(data)]

\* plot_histogram's numeric branch, for a column of numbers.
numeric_histogram ==
    /\ Idle
    /\ \E cells \in NumericColumns :
          call' = [fn |-> "histogram", arg |-> cells, out |-> histogram(cells)]
    /\ UNCHANGED objectVars

\* The categorical part of analyze_column's report (lines 1088-1096): the
\* number of unique values, the most common one and the top-10 table.
categorical_analysis(cells) ==
    LET vc == value_counts(cells)
        \* data.mode(): the most frequent values, sorted
        mode == {vc[i].value : i \in {j \in 1..Len(vc) : vc[j].count = vc[1].count}}
    IN  [unique_values |-> nunique(cells),
         most_common |-> IF mode # {}
                         THEN CHOOSE c \in mode : \A o \in mode : c.v <= o.v
                         ELSE "N/A",
         top |-> head(vc, AnalyzeTopN)]

\* analyze_column's categorical branch, for a column of words.
categorical_column_analysis ==
    /\ Idle
    /\ \E cells \in CategoricalColumns :
          call' = [fn |-> "categorical_analysis", arg |-> cells,
                   out |-> categorical_analysis(cells)]
    /\ UNCHANGED objectVars

\* The paths drawn: a directory and name, with each extension and with
\* none, in either case, and with one extension after another.
PathStems ==
    { <<"/", "d", "/", "a">>, <<"a">>, <<>>, <<"/", "d", ".", "c", "s", "v", "/", "a">>,
      <<"a", ".", "j", "s", "o", "n">>, <<"a", ".", "x", "l", "s">> }
PathExtensions ==
    { <<>>, <<".", "c", "s", "v">>, <<".", "x", "l", "s", "x">>, <<".", "x", "l", "s">>,
      <<".", "j", "s", "o", "n">>, <<".", "t", "x", "t">>, <<".", "C", "S", "V">>,
      <<".", "J", "S", "O", "N">>, <<".", "x", "l", "s", "m">>, <<"c", "s", "v">>,
      <<".", "j", "s", "o", "n", "l">>, <<".">> }
Paths == {stem \o ext : stem \in PathStems, ext \in PathExtensions} \ {<<>>}

\* The readers load_data's if/elif chain (lines 587-595) calls for a path.
readers_called(path) == <<ParserFor(path)>>

\* load_data's choice of reader, for a path.
choose_reader ==
    /\ Idle
    /\ \E path \in Paths :
          call' = [fn |-> "readers_called", arg |-> path, out |-> readers_called(path)]
    /\ UNCHANGED objectVars

\* The float columns the tables to correlate are made of: rising, falling,
\* constant, with a missing value, with one value only, and neither rising
\* nor falling.
CorrCells ==
    { <<Num(0), Num(1), Num(2)>>, <<Num(2), Num(1), Num(0)>>, <<Num(1), Num(1), Num(1)>>,
      <<Num(0), NaN, Num(2)>>, <<NaN, NaN, Num(1)>>, <<Num(0), Num(2), Num(1)>> }
\* The tables of n such columns.
CorrFrames(n) ==
    { Frame([i \in 1..n |-> Col(CorrNames[i], "float64", cs[i])]) : cs \in [1..n -> CorrCells] }

\* Rows taken whether or not a value is missing.
complete_all(x, y) == 1..Len(x)
\* The rows in which both columns have a value: corr() leaves the others out.
complete(x, y) == {i \in 1..Len(x) : x[i] # NaN /\ y[i] # NaN}
RECURSIVE SumOver(_, _, _)
\* The sum of x[i].v * y[i].v over the rows ps.
SumOver(x, y, ps) ==
    IF ps = {} THEN 0
    ELSE LET i == CHOOSE j \in ps : TRUE
         IN  x[i].v * y[i].v + SumOver(x, y, ps \ {i})
\* Pearson's coefficient of two columns, in thousandths (cut, not rounded):
\* cov / sqrt(var_x * var_y) over the complete rows, NaN when that is 0 / 0.
pearson(x, y) ==
    LET ps == complete(x, y)
        n == Cardinality(ps)
        one == [i \in 1..Len(x) |-> Num(1)]
        cov == n * SumOver(x, y, ps) - SumOver(x, one, ps) * SumOver(y, one, ps)
        var_x == n * SumOver(x, x, ps) - SumOver(x, one, ps) * SumOver(x, one, ps)
        var_y == n * SumOver(y, y, ps) - SumOver(y, one, ps) * SumOver(y, one, ps)
        size == CHOOSE t \in 0..1000 :
                    /\ t * t * var_x * var_y <= 1000000 * cov * cov
                    /\ (t = 1000 \/ (t + 1) * (t + 1) * var_x * var_y > 1000000 * cov * cov)
    IN  IF var_x * var_y = 0 THEN NaN
        ELSE Num(IF cov < 0 THEN -size ELSE size)
\* numeric_df.corr()
corr(numeric_df) ==
    [p \in (1..Len(numeric_df.cols)) \X (1..Len(numeric_df.cols)) |->
        pearson(Cells(numeric_df.cols[p[1]]), Cells(numeric_df.cols[p[2]]))]

\* The correlation matrix of correlation_analysis and plot_correlation_heatmap
\* (lines 804-810, 859-868), for a table of n float columns.
correlation_matrix ==
    /\ Idle
    /\ \E n \in 1..MaxCorrCols : \E d \in CorrFrames(n) :
          call' = [fn |-> "corr", arg |-> d, out |-> corr(select_number(d))]
    /\ UNCHANGED objectVars

FnNext ==
    \/ strong_correlations
    \/ sample_data
    \/ categorical_histogram
    \/ numeric_histogram
    \/ categorical_column_analysis
    \/ choose_reader
    \/ correlation_matrix

\* The controller as constructed, on a build whose int is 64 bits wide.
FnInit == Init /\ intp = "int64"

FnSpec == FnInit /\ [][FnNext]_vars

-----------------------------------------------------------------------------
\* Properties.

\* The main loop dispatched handler op in this step.
Handled(ops) == calls' = calls + 1 /\ ev'.op \in ops
\* The last event showed exactly one box, of this kind and one of these texts.
Showed(e, kind, texts) ==
    Len(e.boxes) = 1 /\ e.boxes[1].kind = kind /\ e.boxes[1].text \in texts

\* The handlers that read self.df and test it first.
DataHandlers ==
    {"show_statistical_summary", "correlation_analysis", "plot_correlation_heatmap",
     "plot_histogram", "plot_column", "distribution_analysis", "plot_scatter",
     "analyze_column"}
\* The operations C1 lists.
UserOperations ==
    DataHandlers \cup {"show_data_info", "save_plot", "clear_plot"} \cup StubNames
NoDataWarnings == {"No data loaded!", "No data or column selected!"}

\* C1 as stated: every listed operation, invoked while self.df is None, shows a
\* precondition warning and leaves the application's state unchanged.
C1_EveryOperationWarnsWithoutData ==
    [][ (Handled(UserOperations) /\ df.isNone)
          => (Showed(ev', "warning", NoDataWarnings) /\ UNCHANGED appState) ]_vars

\* C1, amended: while self.df is None, each handler that reads the dataset
\* (summary, correlation, heatmap, histogram / plot column / distribution
\* analysis, scatter, column analysis) shows a "No data" warning and changes
\* nothing; show_data_info shows no box and writes "No data loaded." into the
\* data-info pane, changing nothing else; a placeholder shows an info notice
\* and changes nothing.  save_plot and clear_plot do not test the dataset.
C1_DataHandlersWarnWithoutData ==
    [][ (calls' = calls + 1 /\ df.isNone) =>
          /\ ev'.op \in DataHandlers =>
                /\ Showed(ev', "warning", NoDataWarnings)
                /\ ev'.path = "return" /\ ev'.raised = ""
                /\ UNCHANGED appState
          /\ ev'.op = "show_data_info" =>
                /\ ev'.boxes = <<>>
                /\ data_info' = NoDataText
                /\ UNCHANGED <<df, current_file, column_var, combo_values, data_tree,
                               data_status, results, fig, canvas, tab, status, dialogs, rng>>
          /\ ev'.op \in StubNames =>
                /\ Showed(ev', "info", {h[2] : h \in StubHandlers})
                /\ UNCHANGED appState ]_vars

\* A data handler has just warned that no data is loaded.
C1_Witness ==
    /\ df.isNone
    /\ ev.op = "analyze_column"
    /\ Showed(ev, "warning", NoDataWarnings)

\* C2: when load_data ends in its failure outcome, self.df and
\* self.current_file are the ones from before the call.
C2_FailedLoadKeepsDataset ==
    [][ (Handled({"load_data"}) /\ Showed(ev', "error", {"Failed to load data"}))
          => (df' = df /\ current_file' = current_file) ]_vars

\* A load ran to its end: the table is loaded.
LoadSucceeded == Handled({"load_data", "load_sample_data"}) /\ ev'.path = "done"
\* The table a successful load makes resident.
LoadedFrame(file) ==
    IF file.isNone THEN SampleFrame(RandomState(RandomSeed, 0), n_samples, intp)
    ELSE (CHOOSE f \in Files : f.path = file.path).frame
\* An axes holding a plot of frame d.
PlotOf(a, d) == a.kind \notin {"welcome", "blank"} /\ a.src = d

\* C3 as stated: after a successful load the column list holds exactly the new
\* table's columns and the figure shows no plot made from the previous table.
C3_LoadClearsColumnListAndPlot ==
    [][ LoadSucceeded =>
          /\ df' = LoadedFrame(current_file')
          /\ combo_values' = Columns(df')
          /\ \A i \in 1..Len(fig') : ~PlotOf(fig'[i], df) ]_vars

\* C3, amended: every successful load replaces the resident table wholesale and
\* refreshes what is derived from it (the column list holds exactly the new
\* table's columns; the data view, the data status label and the data-info
\* pane describe the new table); the figure and the canvas are not touched, so
\* a plot made from the previous table stays.
C3_LoadReplacesTableAndColumnList ==
    [][ LoadSucceeded =>
          /\ df' = LoadedFrame(current_file')
          /\ combo_values' = Columns(df')
          /\ data_tree'.columns = Columns(df')
          /\ Len(data_tree'.rows) = Min(DisplayLimit, NRows(df'))
          /\ data_status' = update_data_status(df', current_file')
          /\ data_info' = InfoText(df')
          /\ fig' = fig /\ canvas' = canvas ]_vars

\* A load has just succeeded and the figure still holds a plot of another table.
C3_Witness ==
    /\ ev.op \in {"load_data", "load_sample_data"} /\ ev.path = "done"
    /\ combo_values = Columns(df)
    /\ \E i \in 1..Len(fig) : fig[i].kind \in {"hist", "bar", "heatmap"} /\ fig[i].src # df

\* The handlers that analyse or plot the resident table.
AnalysisHandlers ==
    {"show_statistical_summary", "correlation_analysis", "plot_correlation_heatmap",
     "plot_histogram", "plot_column", "distribution_analysis", "analyze_column",
     "create_scatter"}

\* C4: an analysis or plot operation indexes the resident table only with
\* names of its columns, or it ends on the "no data" warning.
C4_OnlyResidentColumns ==
    ev.op \in AnalysisHandlers =>
        \/ ev.used \subseteq ColumnSet(df)
        \/ Showed(ev, "warning", NoDataWarnings)

\* C5: no exception leaves a handler.
C5_NoErrorLeavesHandler == ev.raised = "" /\ ev.path # "raised"

\* C6 as stated: a handler whose except clause ran showed a message box and
\* set an error status.
C6_CaughtErrorShowsBoxAndStatus ==
    [][ (calls' = calls + 1 /\ ev'.path = "except")
          => (Len(ev'.boxes) > 0 /\ status'.type = "error") ]_vars

\* C6, amended: every error a handler catches is surfaced: load_data,
\* load_sample_data, show_statistical_summary, correlation_analysis,
\* plot_correlation_heatmap, plot_histogram, create_scatter and save_plot show
\* a modal error dialog, and of these only load_data also sets an error status
\* (the others leave the status bar as it was); show_data_info sets an error
\* status and shows no dialog.
C6_CaughtErrorIsSurfaced ==
    [][ (calls' = calls + 1 /\ ev'.path = "except") =>
          /\ ev'.raised = ""
          /\ ev'.op # "show_data_info" =>
                /\ Len(ev'.boxes) = 1 /\ ev'.boxes[1].kind = "error"
                /\ IF ev'.op = "load_data"
                   THEN status' = update_status("Failed to load data", "error", <<>>)
                   ELSE status' = status
          /\ ev'.op = "show_data_info" => status'.type = "error" ]_vars

\* The summary's except clause has just run and the status bar still reports
\* the load's success.
C6_Witness ==
    /\ ev.op = "show_statistical_summary"
    /\ ev.path = "except"
    /\ status.type = "success"

\* C7: at most one scatter dialog is open, and while one is open the numeric
\* columns of the resident table are the ones the dialog was built from.
C7_DialogIsModal ==
    /\ Len(dialogs) <= 1
    /\ \A i \in 1..Len(dialogs) : dialogs[i].cols = Columns(select_number(df))

\* C8: a scatter request on a table with fewer than two numeric columns shows
\* a warning and changes nothing; no dialog stays open.
C8_ScatterNeedsTwoNumericColumns ==
    [][ (Handled({"plot_scatter"}) /\ ~df.isNone /\ Len(select_number(df).cols) < 2) =>
          /\ Showed(ev', "warning", {"Need at least 2 numeric columns for scatter plot!"})
          /\ ev'.path = "return" /\ ev'.raised = ""
          /\ UNCHANGED appState ]_vars

\* The warning has just been shown for a table with one numeric column.
C8_Witness ==
    /\ ev.op = "plot_scatter"
    /\ Showed(ev, "warning", {"Need at least 2 numeric columns for scatter plot!"})
    /\ Len(select_number(df).cols) = 1
    /\ dialogs = <<>>

ColumnHandlers == {"analyze_column", "plot_histogram", "plot_column", "distribution_analysis"}

\* C9: a column operation requested with no column selected, or with a
\* selection that is no column of the resident table, shows a warning and
\* changes nothing.
C9_BadSelectionWarns ==
    [][ (/\ Handled(ColumnHandlers)
         /\ ~df.isNone
         /\ (column_var = "" \/ column_var \notin ColumnSet(df)))
          => (Len(ev'.boxes) = 1 /\ ev'.boxes[1].kind = "warning" /\ UNCHANGED appState) ]_vars

\* C10: a placeholder handler shows its one info notice and changes nothing,
\* whatever the state.
C10_StubOnlyShowsNotice ==
    [][ Handled(StubNames) =>
          /\ \E h \in StubHandlers : h[1] = ev'.op /\ ev'.boxes = <<Box("info", h[2])>>
          /\ ev'.path = "done" /\ ev'.raised = "" /\ ev'.used = {}
          /\ UNCHANGED appState ]_vars

\* A placeholder has just run with a table loaded and a plot drawn.
C10_Witness ==
    /\ ev.op = "pca_analysis"
    /\ Showed(ev, "info", {"PCA analysis coming soon!"})
    /\ ~df.isNone
    /\ fig # <<WelcomeAxes>>

\* The handlers that render into the figure, and the axes each render makes.
RenderHandlers ==
    {"plot_correlation_heatmap", "plot_histogram", "plot_column",
     "distribution_analysis", "create_scatter", "clear_plot"}
RenderKinds(op) ==
    CASE op = "plot_correlation_heatmap" -> <<{"heatmap"}, {"colorbar"}>>
      [] op = "create_scatter" -> <<{"scatter"}>>
      [] op = "clear_plot" -> <<{"welcome"}>>
      [] OTHER -> <<{"bar", "hist"}>>

\* C11: a render that ran to its end leaves in the figure exactly the axes it
\* made itself (the plot's, and for the heatmap its colorbar), drawn from the
\* resident table, and that is what the canvas shows; a render whose except
\* clause ran after the figure was cleared leaves its one unfinished axes.
\* Nothing of an earlier render remains in either case.
C11_RenderReplacesFigure ==
    [][ Handled(RenderHandlers) =>
          /\ ev'.path = "done" =>
                /\ Len(fig') = Len(RenderKinds(ev'.op))
                /\ \A i \in 1..Len(fig') :
                      /\ fig'[i].kind \in RenderKinds(ev'.op)[i]
                      /\ fig'[i].src = (IF ev'.op = "clear_plot" THEN NoneDF ELSE df')
                /\ canvas' = fig'
          /\ ev'.path = "except" =>
                /\ Len(fig') = 1
                /\ fig'[1].kind \in {"blank", "scatter"} ]_vars

\* A heatmap and its colorbar have just replaced the welcome plot.
C11_Witness ==
    /\ ev.op = "plot_correlation_heatmap" /\ ev.path = "done"
    /\ Len(fig) = 2
    /\ \A i \in 1..Len(fig) : fig[i] # WelcomeAxes /\ fig[i].src = df

\* The unordered pair a reported entry names.
PairOf(e) == {e[1], e[2]}

\* C12: the strong-correlation list never pairs a column with itself and
\* never holds the same unordered pair of columns twice.
C12_NoSelfPairNoDuplicate ==
    call.fn = "strong_corr" =>
        LET strong == call.out.strong_corr
        IN  /\ \A k \in 1..Len(strong) : strong[k][1] # strong[k][2]
            /\ \A k, l \in 1..Len(strong) : PairOf(strong[k]) = PairOf(strong[l]) => k = l

\* Three columns, every pair of them strongly correlated, have been reported.
C12_Witness ==
    /\ call.fn = "strong_corr"
    /\ Len(call.arg.columns) = 3
    /\ Len(call.out.strong_corr) = 3

\* C13: a pair of distinct numeric columns is reported as strong exactly when
\* the absolute value of its coefficient is strictly above 0.7 (0.7 and -0.7
\* themselves are not reported, nor is NaN), with that coefficient; when no
\* pair qualifies the report says that none was found, and only then.
C13_StrongIffAboveThreshold ==
    call.fn = "strong_corr" =>
        LET columns == call.arg.columns
            m == call.arg.corr_matrix
            strong == call.out.strong_corr
            reported(i, j) == \E k \in 1..Len(strong) :
                                  /\ PairOf(strong[k]) = {columns[i], columns[j]}
                                  /\ strong[k][3] = m[<<i, j>>].v
        IN  /\ \A i, j \in 1..Len(columns) :
                  i < j => (reported(i, j) <=>
                               (m[<<i, j>>] # NaN /\ (m[<<i, j>>].v > 700 \/ m[<<i, j>>].v < -700)))
            /\ (call.out.text.note = "No strong correlations found (|r| > 0.7)")
                  <=> (\A i, j \in 1..Len(columns) : i < j => ~reported(i, j))
            /\ call.out.text.lines = strong

\* A coefficient of exactly 0.7 was left out and one just above it reported.
C13_Witness ==
    /\ call.fn = "strong_corr"
    /\ Len(call.arg.columns) = 3
    /\ call.arg.corr_matrix[<<1, 2>>] = Num(700)
    /\ call.arg.corr_matrix[<<1, 3>>] = Num(-700)
    /\ call.arg.corr_matrix[<<2, 3>>] = Num(701)
    /\ call.out.strong_corr = << <<"Income", "Education_Years", 701>> >>

NoNumericWarnings ==
    [h \in {"correlation_analysis", "plot_correlation_heatmap"} |->
        IF h = "correlation_analysis"
        THEN "No numeric columns for correlation analysis!"
        ELSE "No numeric columns for correlation heatmap!"]

\* C14: with a table resident that has no numeric column, correlation_analysis
\* and plot_correlation_heatmap each show their warning and return: no
\* exception, no error dialog, and the results pane, the figure, the table and
\* everything else stay as they were.
C14_NoNumericColumnWarns ==
    [][ (/\ Handled(DOMAIN NoNumericWarnings)
         /\ ~df.isNone
         /\ \A i \in 1..Len(df.cols) : df.cols[i].dtype \notin NumberDTypes) =>
          /\ ev'.boxes = showwarning(NoNumericWarnings[ev'.op])
          /\ ev'.path = "return" /\ ev'.raised = ""
          /\ UNCHANGED appState ]_vars

\* The heatmap has just warned about a table of words and lists only.
C14_Witness ==
    /\ ev.op = "plot_correlation_heatmap"
    /\ ev.boxes = showwarning("No numeric columns for correlation heatmap!")
    /\ Len(df.cols) = 3
    /\ \A i \in 1..Len(df.cols) : df.cols[i].dtype = "object"

\* C15: every invocation of load_sample_data makes the same table resident,
\* whatever the generator's state was when it started: the table drawn from
\* the fixed seed.  In particular an invocation that finds a sample table
\* resident leaves an identical one.
C15_SampleIsDeterministic ==
    [][ (Handled({"load_sample_data"}) /\ ev'.path = "done") =>
          /\ df' = SampleFrame(RandomState(RandomSeed, 0), n_samples, intp)
          /\ (~df.isNone /\ current_file.isNone) => df' = df
          /\ rng' = RandomState(RandomSeed, SampleArrays * n_samples) ]_vars

\* The sample table has just been generated again, from the state the first
\* generation left, after a plot of the first one was made; the plot's table
\* and the resident one are the same.
C15_Witness ==
    /\ ev.op = "load_sample_data" /\ ev.path = "done"
    /\ current_file.isNone
    /\ Len(fig) = 1 /\ fig[1].kind \in {"hist", "bar"} /\ fig[1].src = df

\* The cells of column name of frame d are numbers from lo to hi.
Within(d, name, lo, hi) ==
    \A i \in 1..Length(Column(d, name)) :
        /\ Cells(Column(d, name))[i].k = "num"
        /\ Cells(Column(d, name))[i].v >= lo
        /\ Cells(Column(d, name))[i].v <= hi
\* The cells of column name of frame d are labels of the sequence labels.
Labelled(d, name, labels) ==
    \A i \in 1..Length(Column(d, name)) :
        /\ Cells(Column(d, name))[i].k = "str"
        /\ Cells(Column(d, name))[i].v \in 1..Len(labels)

\* C16: the sample table has the eight columns, each of n_samples rows; Age is
\* within [18, 65], Income within [25000, 150000], Education_Years within
\* [8, 20], Experience within [0, 40], Performance_Score within [0, 100]
\* (floats in thousandths), and Department and City hold only labels of their
\* five-label sets.
C16_SampleWithinRanges ==
    call.fn = "sample_data" =>
        LET d == call.out
        IN  /\ Columns(d) = <<"Age", "Income", "Education_Years", "Experience",
                              "Satisfaction", "Department", "Performance_Score", "City">>
            /\ \A k \in 1..Len(d.cols) : Len(Cells(d.cols[k])) = call.arg.n_samples
            /\ Within(d, "Age", 18, 65)
            /\ Within(d, "Income", 25000000, 150000000)
            /\ Within(d, "Education_Years", 8, 20)
            /\ Within(d, "Experience", 0, 40)
            /\ Within(d, "Performance_Score", 0, 100000)
            /\ Len(DepartmentLabels) = 5 /\ Labelled(d, "Department", DepartmentLabels)
            /\ Len(CityLabels) = 5 /\ Labelled(d, "City", CityLabels)

\* A table in which an Age drawn below 18 and a Performance_Score drawn above
\* 100 were both clipped.
C16_Witness ==
    /\ call.fn = "sample_data"
    /\ \E i \in 1..call.arg.n_samples :
          /\ astype_int(normal(35, 12, Variate(Column(call.out, "Age").draw, i))) < 18
          /\ Cells(Column(call.out, "Age"))[i] = Num(18)
    /\ \E i \in 1..call.arg.n_samples :
          /\ normal(75, 15, Variate(Column(call.out, "Performance_Score").draw, i)) > 100000
          /\ Cells(Column(call.out, "Performance_Score"))[i] = Num(100000)

\* The distinct non-missing values of a column.
Values(cells) == {cells[i] : i \in {j \in 1..Len(cells) : cells[j] # NaN}}

\* C17: the bar plot of a categorical column with K distinct values has
\* min(K, 15) bars; each bar is one distinct value, its height and the text
\* above it the number of times the value occurs; the bars are in descending
\* order of height, and no value left out occurs more often than one shown.
C17_TopFifteenBars ==
    call.fn = "bar_plot" =>
        LET cells == call.arg
            bars == call.out
            n == Len(bars.heights)
        IN  /\ n = Min(Cardinality(Values(cells)), 15)
            /\ Len(bars.xticklabels) = n /\ Len(bars.texts) = n
            /\ \A i \in 1..n :
                  /\ bars.xticklabels[i] \in Values(cells)
                  /\ bars.heights[i] = CountOf(cells, bars.xticklabels[i])
                  /\ bars.texts[i] = bars.heights[i]
            /\ \A i, j \in 1..n : i < j =>
                  /\ bars.heights[i] >= bars.heights[j]
                  /\ bars.xticklabels[i] # bars.xticklabels[j]
            /\ \A v \in Values(cells) :
                  (\A i \in 1..n : bars.xticklabels[i] # v) =>
                      \A i \in 1..n : CountOf(cells, v) <= bars.heights[i]

\* Sixteen distinct values of unequal frequencies: fifteen bars, the one value
\* left out being one of the rarest.
C17_Witness ==
    /\ call.fn = "bar_plot"
    /\ Cardinality(Values(call.arg)) = 16
    /\ Len(call.out.heights) = 15
    /\ call.out.heights[1] = 3 /\ call.out.heights[15] = 1
    /\ \E i \in 1..Len(call.arg) : call.arg[i] = NaN

\* The positions of a column's non-missing cells.
Present(cells) == {i \in 1..Len(cells) : cells[i] # NaN}
\* Value v lies in the k-th of 30 equal intervals between lo and hi, the last
\* one closed on both sides.
InBin(v, k, lo, hi) ==
    /\ (v - lo) * 30 >= (k - 1) * (hi - lo)
    /\ \/ (v - lo) * 30 < k * (hi - lo)
       \/ k = 30 /\ v = hi
RECURSIVE Total(_, _)
\* The sum of the numbers at the positions ps of cells.
Total(cells, ps) ==
    IF ps = {} THEN 0
    ELSE LET i == CHOOSE j \in ps : TRUE IN cells[i].v + Total(cells, ps \ {i})

\* C18: the histogram of a numeric column has 30 bins; each bin's frequency is
\* the number of the column's non-missing values in its interval, so the
\* frequencies sum to the number of non-missing values; the count reported is
\* that number and the mean reported is the sum of the non-missing values over
\* it (and the standard deviation is taken over the same values).
C18_HistogramOfNonMissing ==
    call.fn = "histogram" =>
        LET cells == call.arg
            h == call.out
            ps == Present(cells)
            lo == CHOOSE v \in {cells[i].v : i \in ps} : \A i \in ps : v <= cells[i].v
            hi == CHOOSE v \in {cells[i].v : i \in ps} : \A i \in ps : v >= cells[i].v
        IN  /\ Len(h.n) = 30
            /\ h.Count = Cardinality(ps)
            /\ SumFrom(h.n, 1) = h.Count
            /\ ps # {} =>
                  /\ h.Mean.num = Total(cells, ps) /\ h.Mean.den = Cardinality(ps)
                  /\ lo < hi =>
                        \A k \in 1..30 :
                            h.n[k] = Cardinality({i \in ps : InBin(cells[i].v, k, lo, hi)})
                  /\ lo = hi => h.n[16] = Cardinality(ps)
            /\ (Cardinality(ps) < 2) <=> (h.Std = NaN)

\* A column with a missing value between two numbers: two values counted, one
\* in the first bin and one in the last.
C18_Witness ==
    /\ call.fn = "histogram"
    /\ call.arg = <<Num(10), NaN, Num(300)>>
    /\ call.out.Count = 2
    /\ call.out.n[1] = 1 /\ call.out.n[30] = 1

\* C19: column analysis of a categorical column reports the number of its
\* distinct non-missing values and a frequency table of at most 10 entries,
\* distinct values with their frequencies, most frequent first; when the
\* column has at most 10 distinct values the table lists them all and its
\* counts sum to the number of non-missing cells.
C19_CategoricalAnalysis ==
    call.fn = "categorical_analysis" =>
        LET cells == call.arg
            top == call.out.top
        IN  /\ call.out.unique_values = Cardinality(Values(cells))
            /\ Len(top) = Min(Cardinality(Values(cells)), 10)
            /\ \A i \in 1..Len(top) :
                  top[i].value \in Values(cells) /\ top[i].count = CountOf(cells, top[i].value)
            /\ \A i, j \in 1..Len(top) : i < j =>
                  top[i].count >= top[j].count /\ top[i].value # top[j].value
            /\ Cardinality(Values(cells)) <= 10 =>
                  SumFrom([i \in 1..Len(top) |-> top[i].count], 1) = Cardinality(Present(cells))

\* Five distinct values and a missing one: nunique is 5 and the five counts
\* sum to the cells that are not missing.
C19_Witness ==
    /\ call.fn = "categorical_analysis"
    /\ call.out.unique_values = 5
    /\ Len(call.out.top) = 5
    /\ Len(call.arg) = 1 + SumFrom([i \in 1..5 |-> call.out.top[i].count], 1)
    /\ call.out.top[1].count > call.out.top[5].count

\* Path p is some prefix followed by ext.
EndsIn(p, ext) == \E k \in 0..Len(p) : p = SubSeq(p, 1, k) \o ext

\* C20: load_data calls exactly one reader for a path: read_csv for a path
\* ending in .csv, read_excel for one ending in .xlsx or .xls, read_json for
\* one ending in .json, and read_csv for every other path, whatever its
\* extension and also without one.
C20_ReaderByExtension ==
    call.fn = "readers_called" =>
        LET p == call.arg
            csv == EndsIn(p, <<".", "c", "s", "v">>)
            excel == EndsIn(p, <<".", "x", "l", "s", "x">>) \/ EndsIn(p, <<".", "x", "l", "s">>)
            json == EndsIn(p, <<".", "j", "s", "o", "n">>)
        IN  /\ Len(call.out) = 1
            /\ csv => call.out[1] = "read_csv"
            /\ excel => call.out[1] = "read_excel"
            /\ json => call.out[1] = "read_json"
            /\ ~(csv \/ excel \/ json) => call.out[1] = "read_csv"

\* A path with an extension the chain does not know was handed to read_csv.
C20_Witness ==
    /\ call.fn = "readers_called"
    /\ call.arg = <<"a", ".", "j", "s", "o", "n", ".", "t", "x", "t">>
    /\ call.out = <<"read_csv">>

\* C21: the handlers that branch on a column's kind agree on every column of
\* the resident table: analyze_column, plot_histogram and the handlers that
\* go by select_dtypes take it for the same kind.
C21_HandlersAgreeOnKind ==
    ~df.isNone =>
        \A i \in 1..Len(df.cols) :
            /\ analyze_column_kind(df.cols[i].dtype) = plot_histogram_kind(df.cols[i].dtype)
            /\ plot_histogram_kind(df.cols[i].dtype) = select_dtypes_kind(df.cols[i].dtype)

\* The matrix m of n columns is square and symmetric.
SquareSymmetric(m, n) ==
    /\ DOMAIN m = (1..n) \X (1..n)
    /\ \A i, j \in 1..n : m[<<i, j>>] = m[<<j, i>>]

\* C22 as stated: the correlation matrix of any table is square and
\* symmetric, has 1.0 on the diagonal and off the diagonal only coefficients
\* from -1 to 1.
C22_CorrelationMatrixIsProper ==
    call.fn = "corr" =>
        LET n == Len(call.arg.cols)
            m == call.out
        IN  /\ SquareSymmetric(m, n)
            /\ \A i \in 1..n : m[<<i, i>>] = Num(1000)
            /\ \A i, j \in 1..n : i # j =>
                  /\ m[<<i, j>>].k = "num"
                  /\ m[<<i, j>>].v >= -1000 /\ m[<<i, j>>].v <= 1000

\* Columns x and y have no coefficient: fewer than two rows hold a value in
\* both, or one of the two is constant over those rows.
NoCoefficient(x, y) ==
    LET ps == {i \in 1..Len(x) : x[i].k = "num" /\ y[i].k = "num"}
    IN  \/ Cardinality(ps) < 2
        \/ \A i, j \in ps : x[i] = x[j]
        \/ \A i, j \in ps : y[i] = y[j]

\* C22, amended: the correlation matrix over the numeric columns is square
\* and symmetric.  An entry is NaN exactly when its two columns have fewer
\* than two rows with a value in both or one of them is constant over those
\* rows, and that holds for the diagonal too (a constant or nearly empty
\* column has NaN there, not 1.0).  Every other entry is a coefficient from
\* -1 to 1, and on the diagonal 1.0.
C22_CorrelationMatrixWhereDefined ==
    call.fn = "corr" =>
        LET n == Len(call.arg.cols)
            m == call.out
            cells(i) == Cells(call.arg.cols[i])
        IN  /\ SquareSymmetric(m, n)
            /\ \A i, j \in 1..n :
                  IF NoCoefficient(cells(i), cells(j)) THEN m[<<i, j>>] = NaN
                  ELSE /\ m[<<i, j>>].k = "num"
                       /\ m[<<i, j>>].v >= -1000 /\ m[<<i, j>>].v <= 1000
                       /\ i = j => m[<<i, j>>].v = 1000

\* A rising column, a constant one and a bent one: 1.0 and NaN on the
\* diagonal, NaN against the constant column, 0.5 between the other two.
C22_Witness ==
    /\ call.fn = "corr"
    /\ Len(call.arg.cols) = 3
    /\ call.arg.cols[1].cells = <<Num(0), Num(1), Num(2)>>
    /\ call.arg.cols[2].cells = <<Num(1), Num(1), Num(1)>>
    /\ call.arg.cols[3].cells = <<Num(0), Num(2), Num(1)>>
    /\ call.out[<<1, 1>>] = Num(1000)
    /\ call.out[<<2, 2>>] = NaN
    /\ call.out[<<1, 2>>] = NaN
    /\ call.out[<<1, 3>>] = Num(500)

\* C23: whenever a table is resident and a column is selected, the selected
\* column is a column of the resident table.
C23_SelectionIsResidentColumn ==
    (~df.isNone /\ column_var # "") => column_var \in ColumnSet(df)

\* C24: between handlers the results pane is read-only and is not left
\* emptied without a result.
C24_ResultsPaneReadOnly ==
    results.state = "disabled" /\ results.kind # "deleted"

\* The table that file path p holds, and the table load_sample_data makes.
TableOf(p) == (CHOOSE f \in Files : f.path = p).frame

\* C25: current_file is None when no table is resident or the resident table
\* is the sample table, and otherwise the path of the file the resident table
\* was read from; and the data status label shows the resident table's shape
\* and origin.
C25_CurrentFileNamesOrigin ==
    /\ df.isNone => current_file.isNone
    /\ (~df.isNone /\ current_file.isNone) => df = SampleFrame(RandomState(RandomSeed, 0), n_samples, intp)
    /\ ~current_file.isNone => df = TableOf(current_file.path)
    /\ data_status = update_data_status(df, current_file)

\* C26: when the open dialog of load_data or the save dialog of save_plot is
\* cancelled, the handler shows no box, raises nothing and leaves the table,
\* the current file, the figure, the results pane, the column selection, the
\* status text and everything else as they were.
C26_CancelIsNoOp ==
    [][ (Handled({"load_data", "save_plot"}) /\ ev'.path = "cancelled") =>
          /\ ev'.boxes = <<>> /\ ev'.raised = ""
          /\ UNCHANGED appState ]_vars

\* The save dialog has just been cancelled with a table loaded and a plot
\* drawn; the status bar still reports the plot.
C26_Witness ==
    /\ ev.op = "save_plot" /\ ev.path = "cancelled"
    /\ ~df.isNone
    /\ fig # <<WelcomeAxes>>
    /\ status.text = "Histogram created for"

====
